---- MODULE Spec2Model ----
(***************************************************************************)
(* A model of gemfast's identity and admission control plane:              *)
(*   - the GitHub OAuth bridge and its request-time gateway                *)
(*     (internal/middleware/github.go),                                    *)
(*   - the local-mode Authorizator (internal/middleware/jwt.go),           *)
(*   - the ruby advisory cache and GetCVEs (package cve),                  *)
(*   - the bolt-backed user directory (package models).                    *)
(* Time is counted in seconds.                                             *)
(***************************************************************************)
EXTENDS Integers, Sequences, FiniteSets, TLC

VARIABLES
    authMode,     \* cfg.Auth.Type of the deployment: "github" or "local"
    now,          \* time.Now(), in seconds
    ticks,        \* number of clock advances so far
    ghUsers,      \* db user bucket of the GitHub strategy: login -> db.User
    cache,        \* GitHubMiddleware.cache: access token -> expiry, NoEntry when absent
    sessions,     \* session tokens handed out by GitHubCallbackHandler
    authAt,       \* history: access token -> time of its last successful authenticateGitHubUser
    last,         \* history: what the most recent request did
    inflight,     \* the request a handler goroutine is working on, and how far it has got
    deleted,      \* history: the logins an administrator deleted and no callback has created since
    advisoryDB,   \* package cve's advisoryDB: gem -> list of GemAdvisory, NotFound when absent
    tree,         \* the advisory source tree on disk: gem -> list of advisory files
    walk,         \* cacheAdvisoryDB's position: the files filepath.Walk still has to visit
    rpc,          \* where InitRubyAdvisoryDB is: "idle", "close", "walk"
    cacheKey,     \* cacheAdvisoryDB's cacheKey: the name of the directory last entered
    builds,       \* number of InitRubyAdvisoryDB calls so far
    prevBuild,    \* history: the cache as the last completed build left it
    observed,     \* history: what the last reader Get returned
    cveIn,        \* the (gem, version, MaxSeverity) of a GetCVEs call
    cveOut,       \* the list that GetCVEs call returned
    sync,         \* RubyAdvisoryDBDir on disk or not, and how the last InitRubyAdvisoryDB went
    userBucket,   \* bolt USER_BUCKET of package models: username -> models.User
    nextToken,    \* number of data-plane tokens generated so far
    boot,         \* where the process is: "routes", "admin", "users", "serving" or "crashed"
    issued,       \* history: username -> the encoded tokens CreateUserToken returned, in order
    envUsers,     \* config.Env.AddLocalUsers as its comma separated pairs
    preBucket,    \* history: the user bucket before CreateLocalUsers ran
    validated,    \* history: the last token presented to Validate and what it found
    adminLog,     \* history: the runs of CreateAdminUserIfNotExists so far, latest last
    fnCall,       \* history: the arguments and the result of a function called on its own
    localTokens,  \* session tokens handed out by the local LoginHandler and RefreshHandler
    loginLog,     \* history: the login requests answered so far, latest last
    refreshed,    \* history: what the most recent refresh request did
    store         \* the mirror: its filter and cve configuration, its files and its index

vars == <<authMode, now, ticks, ghUsers, cache, sessions, authAt, last, inflight, deleted,
          advisoryDB, tree, walk, rpc, cacheKey, builds, prevBuild, observed,
          cveIn, cveOut, sync, userBucket, nextToken, boot, issued, envUsers, preBucket, validated,
          adminLog, fnCall, localTokens, loginLog, refreshed, store>>

authVars  == <<authMode, now, ticks, ghUsers, cache, sessions, authAt, last, inflight,
               deleted>>
cveVars   == <<advisoryDB, tree, walk, rpc, cacheKey, builds, prevBuild, observed, cveIn, cveOut,
               sync>>
userVars  == <<userBucket, nextToken, boot, issued, envUsers, preBucket, validated, adminLog>>
localVars == <<fnCall, localTokens, loginLog, refreshed, store>>

----------------------------------------------------------------------------
(* Bounds of the model. *)

MaxTicks == 1
MaxSessions == 2
MaxAdvisories == 2
MaxBuilds == 2
MaxPairs == 2
MaxTokens == 3
MaxOrgs == 2
MaxLogins == 2
MaxBoots == 2
MaxRequests == 2

(* Program constants. *)

Timeout == 43200     \* time.Hour * 12
CacheTTL == 300      \* 5 * time.Minute
MaxRefresh == 86400  \* time.Hour * 24

NoEntry == -1

IdentityKey == "id"
RoleKey == "role"
GitHubTokenKey == "github_token"

JWTSecretKey == "secret"
DefaultUserRole == "read"
GitHubUserOrgs == <<"Acme">>

----------------------------------------------------------------------------
(* strings.ToLower on the strings the model uses. *)

ToLower(s) ==
    CASE s = "Bearer" -> "bearer"
      [] s = "BEARER" -> "bearer"
      [] s = "Basic"  -> "basic"
      [] s = "Acme"   -> "acme"
      [] s = "ACME"   -> "acme"
      [] s = "Other"  -> "other"
      [] s = "Medium" -> "medium"
      [] s = "Widgets" -> "widgets"
      [] s = "GitHub" -> "github"
      [] s = "LOCAL"  -> "local"
      [] s = "None"   -> "none"
      [] OTHER        -> s

Range(s) == {s[i] : i \in DOMAIN s}

----------------------------------------------------------------------------
(* Session tokens (golang-jwt). A token is its header algorithm, its claims *)
(* and its signature; a signature is what was signed, how and with which    *)
(* key. Claims are a map: keys is the set of keys present.                  *)

AllClaimKeys == {IdentityKey, RoleKey, GitHubTokenKey, "exp", "orig_iat"}

MapClaims(ks, id, role, gh, exp, iat) ==
    [keys |-> ks, id |-> id, role |-> role, gh |-> gh, exp |-> exp, iat |-> iat]

EmptyClaims == MapClaims({}, "", "", "", 0, 0)

SignedString(alg, key, claims) == [alg |-> alg, key |-> key, claims |-> claims]

NewToken(alg, key, claims) ==
    [alg |-> alg, claims |-> claims, sig |-> SignedString(alg, key, claims)]

\* payload(user): the claims of a db.User
payload(user) ==
    MapClaims({IdentityKey, RoleKey, GitHubTokenKey},
              user.Username, user.Role, user.GitHubToken, 0, 0)

\* generateJWTToken(user) at time t
generateJWTToken(user, t) ==
    LET p == payload(user)
        claims == [p EXCEPT !.keys = p.keys \cup {"exp", "orig_iat"},
                            !.exp = t + Timeout,
                            !.iat = t]
    IN  NewToken("HS256", JWTSecretKey, claims)

\* jwt.GetSigningMethod: the algorithms the library has registered
SigningMethods == {"HS256", "HS384", "HS512", "RS256", "none"}

\* the Keyfunc GitHubMiddlewareFunc hands to jwt.Parse
KeyfuncAnyAlg(t) == [err |-> FALSE, key |-> JWTSecretKey]

Keyfunc(t) ==
    IF t.alg # "HS256"
       THEN [err |-> TRUE, key |-> ""]
       ELSE [err |-> FALSE, key |-> JWTSecretKey]

\* SigningMethod.Verify with a []byte key: only the HMAC methods take one ("none"
\* verifies under the library's own marker key alone, RS256 wants a public key)
MethodVerify(t, key) ==
    /\ t.alg \in {"HS256", "HS384", "HS512"}
    /\ t.sig = SignedString(t.alg, key, t.claims)

\* MapClaims.Valid: exp is checked when present and not zero. At the instant of
\* expiry golang-jwt v4.0 accepts (now <= exp) and later v4 releases reject
\* (now.Before(exp)): atExp says which release the build links.
VerifyExpNever(claims, t, atExp) == TRUE

VerifyExpiresAt(claims, t, atExp) ==
    IF "exp" \notin claims.keys \/ claims.exp = 0
       THEN TRUE
       ELSE IF atExp THEN t <= claims.exp ELSE t < claims.exp

\* jwt.Parse(tokenString, Keyfunc): err = nil
ParseNoSignature(t, at, atExp) ==
    /\ t.alg \in SigningMethods
    /\ ~Keyfunc(t).err
    /\ VerifyExpiresAt(t.claims, at, atExp)

Parse(t, at, atExp) ==
    /\ t.alg \in SigningMethods
    /\ ~Keyfunc(t).err
    /\ VerifyExpiresAt(t.claims, at, atExp)
    /\ MethodVerify(t, Keyfunc(t).key)

----------------------------------------------------------------------------
(* The identity provider and the account records of the GitHub strategy.   *)

Logins == {"alice"}
GhTokens == {"gt1", "gt2"}

\* whose access token it is, as api.github.com/user answers: alice's first token
\* and the one she rotated to
GHLoginOf(at) == "alice"

\* GET api.github.com/user: transport error, status >= 400, unreadable body,
\* a body without login, or a body with the login
UserResponses == {"neterr", "http4xx", "readerr", "nologin", "ok"}

\* GET api.github.com/user/orgs: the same failures, or the logins of the orgs
OrgResponses ==
    {[status |-> s, orgs |-> << >>] : s \in {"neterr", "http4xx", "readerr"}}
    \cup {[status |-> "ok", orgs |-> o] : o \in {<< >>, <<"ACME", "Other">>, <<"Other">>}}

\* What the outside does during one authenticateGitHubUser: the two responses and
\* whether the bucket write fails. A response that is never asked for is left out.
AuthInput(userResp, orgResp, dbErr) ==
    [userResp |-> userResp, orgResp |-> orgResp, dbErr |-> dbErr]

NoOrgResponse == [status |-> "neterr", orgs |-> << >>]

AuthInputs ==
    {AuthInput(r, NoOrgResponse, FALSE) : r \in UserResponses \ {"ok"}}
    \cup {AuthInput("ok", o, FALSE) : o \in OrgResponses}
    \cup {AuthInput("ok", [status |-> "ok", orgs |-> <<"ACME", "Other">>], TRUE)}

NoUser == [Username |-> "", Role |-> "", Type |-> "", GitHubToken |-> ""]

\* the variant whose entries never expire
CacheGetNoExpiry(c, key, t) == c[key] # NoEntry

\* cache.Get(key) of akyoto/cache at time t: an entry is not returned once
\* time.Now() is past its expiry
CacheGet(c, key, t) == c[key] # NoEntry /\ ~(t > c[key])

\* cache.Set(key, value, 5*time.Minute) at time t
CacheSet(c, key, t) == [c EXCEPT ![key] = t + CacheTTL]

\* the variant that compares the logins as they are spelled
userMemberOfRequiredOrgCaseSensitive(orgResp, GitHubUserOrgsCfg) ==
    /\ orgResp.status = "ok"
    /\ (Range(GitHubUserOrgsCfg) \cap Range(orgResp.orgs)) # {}

\* userMemberOfRequiredOrg(at) under cfg.Auth.GitHubUserOrgs = GitHubUserOrgsCfg:
\* TRUE when it returns nil
userMemberOfRequiredOrg(orgResp, GitHubUserOrgsCfg) ==
    /\ orgResp.status = "ok"
    /\ LET userOrgs == {ToLower(o) : o \in Range(orgResp.orgs)}
           requiredOrgs == {ToLower(o) : o \in Range(GitHubUserOrgsCfg)}
       IN  (requiredOrgs \cap userOrgs) # {}

\* authenticateGitHubUser(at) at time t, against user bucket u and cache c.
\* dbErr: CreateUser / UpdateUser returns an error.
\* The result: err, the user returned, the bucket and the cache afterwards, and
\* how many identity and org requests were sent, and which bucket write was made
\* ("create", "update" or "none").
AuthResult(err, user, u, c, idCalls, orgCalls, write) ==
    [err |-> err, user |-> user, users |-> u, cache |-> c,
     idCalls |-> idCalls, orgCalls |-> orgCalls, write |-> write]

\* the variant that writes a fresh record when the token was rotated
authenticateGitHubUserResetsRole(at, userResp, orgResp, dbErr, u, c, t) ==
    IF userResp # "ok"
       THEN AuthResult(TRUE, NoUser, u, c, 1, 0, "none")
    ELSE IF ~userMemberOfRequiredOrg(orgResp, GitHubUserOrgs)
       THEN AuthResult(TRUE, NoUser, u, c, 1, 1, "none")
    ELSE LET username == GHLoginOf(at)
             user == u[username]
             newUser == [Username |-> username, Role |-> DefaultUserRole,
                         Type |-> "github", GitHubToken |-> at]
         IN  IF dbErr /\ (user = NoUser \/ user.GitHubToken # at)
                THEN AuthResult(TRUE, NoUser, u, c, 1, 1, "none")
             ELSE IF user = NoUser
                THEN AuthResult(FALSE, newUser, [u EXCEPT ![username] = newUser], c, 1, 1,
                                "create")
             ELSE IF user.GitHubToken # at
                THEN AuthResult(FALSE, newUser, [u EXCEPT ![username] = newUser],
                                CacheSet(c, at, t), 1, 1, "update")
             ELSE AuthResult(FALSE, user, u, CacheSet(c, at, t), 1, 1, "none")

\* the variant that caches the token as soon as the identity fetch has answered
authenticateGitHubUserCachesEarly(at, userResp, orgResp, dbErr, u, c, t) ==
    IF userResp # "ok"
       THEN AuthResult(TRUE, NoUser, u, c, 1, 0, "none")
    ELSE IF ~userMemberOfRequiredOrg(orgResp, GitHubUserOrgs)
       THEN AuthResult(TRUE, NoUser, u, CacheSet(c, at, t), 1, 1, "none")
    ELSE LET username == GHLoginOf(at)
             user == u[username]
             newUser == [Username |-> username, Role |-> DefaultUserRole,
                         Type |-> "github", GitHubToken |-> at]
         IN  IF dbErr /\ (user = NoUser \/ user.GitHubToken # at)
                THEN AuthResult(TRUE, NoUser, u, CacheSet(c, at, t), 1, 1, "none")
             ELSE IF user = NoUser
                THEN AuthResult(FALSE, newUser, [u EXCEPT ![username] = newUser],
                                CacheSet(c, at, t), 1, 1, "create")
             ELSE IF user.GitHubToken # at
                THEN AuthResult(FALSE, [user EXCEPT !.GitHubToken = at],
                                [u EXCEPT ![username].GitHubToken = at],
                                CacheSet(c, at, t), 1, 1, "update")
             ELSE AuthResult(FALSE, user, u, CacheSet(c, at, t), 1, 1, "none")

authenticateGitHubUser(at, userResp, orgResp, dbErr, u, c, t) ==
    IF userResp # "ok"
       THEN AuthResult(TRUE, NoUser, u, c, 1, 0, "none")
    ELSE IF ~userMemberOfRequiredOrg(orgResp, GitHubUserOrgs)
       THEN AuthResult(TRUE, NoUser, u, c, 1, 1, "none")
    ELSE LET username == GHLoginOf(at)
             user == u[username]
         IN  IF user = NoUser
                THEN LET newUser == [Username |-> username, Role |-> DefaultUserRole,
                                     Type |-> "github", GitHubToken |-> at]
                     IN  IF dbErr
                            THEN AuthResult(TRUE, NoUser, u, c, 1, 1, "none")
                            \* returns newUser before cache.Set is reached
                            ELSE AuthResult(FALSE, newUser,
                                            [u EXCEPT ![username] = newUser], c, 1, 1, "create")
             ELSE IF user.GitHubToken # at
                THEN IF dbErr
                        THEN AuthResult(TRUE, NoUser, u, c, 1, 1, "none")
                        ELSE AuthResult(FALSE, [user EXCEPT !.GitHubToken = at],
                                        [u EXCEPT ![username].GitHubToken = at],
                                        CacheSet(c, at, t), 1, 1, "update")
             ELSE AuthResult(FALSE, user, u, CacheSet(c, at, t), 1, 1, "none")

----------------------------------------------------------------------------
(* The policy oracle. ACL.Enforce(role, path, method) answers from the      *)
(* policy table, or fails with an evaluator error.                          *)

Resources == {<<"/admin/api/v1/gems", "GET">>, <<"/admin/api/v1/users/alice", "DELETE">>}
Roles == {"admin", "read"}

ACLPolicy ==
    {<<"admin", r[1], r[2]>> : r \in Resources}
    \cup {<<"read", "/admin/api/v1/gems", "GET">>}

\* (ok, err) of ACL.Enforce; evalErr: the evaluator fails
Enforce(role, path, method, evalErr) ==
    [ok |-> ~evalErr /\ <<role, path, method>> \in ACLPolicy, err |-> evalErr]

----------------------------------------------------------------------------
(* The request-time gateway, GitHubMiddlewareFunc.                          *)

NoToken == NewToken("", "", EmptyClaims)

\* The Authorization header as strings.Split(auth, " ") sees it: n fields (0 for
\* an absent header), the first the scheme, the second the token.
Header(n, scheme, token) == [n |-> n, scheme |-> scheme, token |-> token]

NoAuth(u, c) == AuthResult(FALSE, NoUser, u, c, 0, 0, "none")

\* What one request did: the response status (200: passed on to the handler),
\* whether c.Abort() was called, the checks made in order, whether the access
\* token was cache-hot, whether authenticateGitHubUser ran and how it ended.
Outcome(status, aborted, steps, hot, ran, a) ==
    [status |-> status, aborted |-> aborted, steps |-> steps, cacheHot |-> hot,
     authRan |-> ran, authErr |-> a.err, idCalls |-> a.idCalls, orgCalls |-> a.orgCalls,
     users |-> a.users, cache |-> a.cache, write |-> a.write]

GatewayIgnoresEnforceErr(hdr, res, atExp, userResp, orgResp, dbErr, evalErr, u, c, t) ==
    IF hdr.n = 0
       THEN Outcome(400, TRUE, <<"header">>, FALSE, FALSE, NoAuth(u, c))
    ELSE IF hdr.n # 2 \/ ToLower(hdr.scheme) # "bearer"
       THEN Outcome(400, TRUE, <<"header", "bearer">>, FALSE, FALSE, NoAuth(u, c))
    ELSE IF ~Parse(hdr.token, t, atExp)
       THEN Outcome(403, TRUE, <<"header", "bearer", "parse">>, FALSE, FALSE, NoAuth(u, c))
    ELSE LET claims == hdr.token.claims IN
    IF claims.keys = {}
       THEN Outcome(403, TRUE, <<"header", "bearer", "parse", "claims">>,
                    FALSE, FALSE, NoAuth(u, c))
    ELSE IF RoleKey \notin claims.keys \/ GitHubTokenKey \notin claims.keys
       THEN Outcome(500, TRUE, <<"header", "bearer", "parse", "claims", "cast">>,
                    FALSE, FALSE, NoAuth(u, c))
    ELSE LET hot == CacheGet(c, claims.gh, t)
             a == IF hot THEN NoAuth(u, c)
                  ELSE authenticateGitHubUser(claims.gh, userResp, orgResp, dbErr, u, c, t)
             pre == <<"header", "bearer", "parse", "claims", "cast", "cache">>
         IN  IF ~hot /\ a.err
                THEN Outcome(403, TRUE, Append(pre, "authenticate"), hot, TRUE, a)
             ELSE LET e == Enforce(claims.role, res[1], res[2], evalErr)
                      steps == IF hot THEN Append(pre, "enforce")
                               ELSE pre \o <<"authenticate", "enforce">>
                  IN  IF ~e.err /\ ~e.ok
                         THEN Outcome(403, TRUE, steps, hot, ~hot, a)
                         ELSE Outcome(200, FALSE, steps, hot, ~hot, a)

GatewayOutcome(hdr, res, atExp, userResp, orgResp, dbErr, evalErr, u, c, t) ==
    IF hdr.n = 0
       THEN Outcome(400, TRUE, <<"header">>, FALSE, FALSE, NoAuth(u, c))
    ELSE IF hdr.n # 2 \/ ToLower(hdr.scheme) # "bearer"
       THEN Outcome(400, TRUE, <<"header", "bearer">>, FALSE, FALSE, NoAuth(u, c))
    ELSE IF ~Parse(hdr.token, t, atExp)
       THEN Outcome(403, TRUE, <<"header", "bearer", "parse">>, FALSE, FALSE, NoAuth(u, c))
    ELSE LET claims == hdr.token.claims IN
    IF claims.keys = {}
       THEN Outcome(403, TRUE, <<"header", "bearer", "parse", "claims">>,
                    FALSE, FALSE, NoAuth(u, c))
    \* claims[RoleKey].(string), claims[GitHubTokenKey].(string): a missing key
    \* panics, and gin.Recovery answers 500
    ELSE IF RoleKey \notin claims.keys \/ GitHubTokenKey \notin claims.keys
       THEN Outcome(500, TRUE, <<"header", "bearer", "parse", "claims", "cast">>,
                    FALSE, FALSE, NoAuth(u, c))
    ELSE LET hot == CacheGet(c, claims.gh, t)
             a == IF hot THEN NoAuth(u, c)
                  ELSE authenticateGitHubUser(claims.gh, userResp, orgResp, dbErr, u, c, t)
             pre == <<"header", "bearer", "parse", "claims", "cast", "cache">>
         IN  IF ~hot /\ a.err
                THEN Outcome(403, TRUE, Append(pre, "authenticate"), hot, TRUE, a)
             ELSE LET e == Enforce(claims.role, res[1], res[2], evalErr)
                      steps == IF hot THEN Append(pre, "enforce")
                               ELSE pre \o <<"authenticate", "enforce">>
                  IN  IF e.err
                         THEN Outcome(403, TRUE, steps, hot, ~hot, a)
                      ELSE IF ~e.ok
                         THEN Outcome(403, TRUE, steps, hot, ~hot, a)
                         ELSE Outcome(200, FALSE, steps, hot, ~hot, a)

\* The tokens a client may present: the sessions handed out, those sessions
\* tampered with, and tokens minted by someone else (with or without the secret).
Tampered(t) ==
    {[t EXCEPT !.alg = "none"],
     [t EXCEPT !.claims.role = "admin"],
     NewToken("HS256", "attacker", [t.claims EXCEPT !.role = "admin"]),
     NewToken("HS512", JWTSecretKey, t.claims),
     NewToken("none", "", t.claims)}

Minted ==
    {NewToken("HS256", JWTSecretKey, EmptyClaims),
     NewToken("HS256", JWTSecretKey, MapClaims({IdentityKey, RoleKey}, "alice", "admin", "", 0, 0)),
     NewToken("HS256", JWTSecretKey,
              MapClaims({IdentityKey, RoleKey, GitHubTokenKey}, "alice", "admin", "gt1", 0, 0)),
     NewToken("RS256", JWTSecretKey,
              MapClaims({IdentityKey, RoleKey, GitHubTokenKey}, "alice", "admin", "gt1", 0, 0)),
     NewToken("XS999", JWTSecretKey,
              MapClaims({IdentityKey, RoleKey, GitHubTokenKey}, "alice", "admin", "gt1", 0, 0))}

TokenInputs == sessions \cup UNION {Tampered(t) : t \in sessions} \cup Minted

HeaderInputs ==
    {Header(0, "", NoToken), Header(1, "Bearer", NoToken)}
    \cup {Header(3, "Bearer", t) : t \in sessions}
    \cup {Header(2, "Basic", t) : t \in sessions}
    \cup {Header(2, "bearer", t) : t \in sessions}
    \cup {Header(2, "Bearer", t) : t \in TokenInputs}

NoRequest ==
    [kind |-> "none", hdr |-> Header(0, "", NoToken), res |-> <<"", "">>, at |-> 0,
     atExp |-> FALSE, evalErr |-> FALSE, role |-> "",
     status |-> 0, aborted |-> FALSE, steps |-> << >>, cacheHot |-> FALSE,
     authRan |-> FALSE, authErr |-> FALSE, idCalls |-> 0, orgCalls |-> 0,
     created |-> FALSE, authAtPre |-> NoEntry,
     usersPre |-> [l \in Logins |-> NoUser], usersPost |-> [l \in Logins |-> NoUser],
     cachePre |-> [k \in GhTokens |-> NoEntry],
     cachePost |-> [k \in GhTokens |-> NoEntry], write |-> "none"]

Request(kind, hdr, res, atExp, evalErr, role, o, created, pre) ==
    [kind |-> kind, hdr |-> hdr, res |-> res, at |-> now,
     atExp |-> atExp, evalErr |-> evalErr, role |-> role,
     status |-> o.status, aborted |-> o.aborted, steps |-> o.steps,
     cacheHot |-> o.cacheHot, authRan |-> o.authRan, authErr |-> o.authErr,
     idCalls |-> o.idCalls, orgCalls |-> o.orgCalls,
     created |-> created, authAtPre |-> pre,
     usersPre |-> ghUsers, usersPost |-> o.users,
     cachePre |-> cache, cachePost |-> o.cache, write |-> o.write]

\* Whether a request with this header gets as far as the cache lookup, and so
\* depends on the identity provider and the policy oracle.
ReachesCache(hdr, atExp, t) ==
    /\ hdr.n = 2
    /\ ToLower(hdr.scheme) = "bearer"
    /\ Parse(hdr.token, t, atExp)
    /\ {RoleKey, GitHubTokenKey} \subseteq hdr.token.claims.keys

DefaultAuthInput == AuthInput("neterr", NoOrgResponse, FALSE)

GitHubMiddlewareFunc ==
    /\ authMode = "github"
    /\ last = NoRequest
    /\ \E hdr \in HeaderInputs :
       \E atExp \in (IF hdr.token.claims.exp = now THEN BOOLEAN ELSE {FALSE}) :
       \E in \in (IF ReachesCache(hdr, atExp, now) /\ ~CacheGet(cache, hdr.token.claims.gh, now)
                     THEN AuthInputs ELSE {DefaultAuthInput}) :
       \E res \in (IF ReachesCache(hdr, atExp, now) THEN Resources
                   ELSE {<<"/admin/api/v1/gems", "GET">>}) :
       \E evalErr \in (IF ReachesCache(hdr, atExp, now) THEN BOOLEAN ELSE {FALSE}) :
          LET o == GatewayOutcome(hdr, res, atExp, in.userResp, in.orgResp, in.dbErr, evalErr,
                                  ghUsers, cache, now)
              gh == hdr.token.claims.gh
              authOK == o.authRan /\ ~o.authErr
          IN  /\ ghUsers' = o.users
              /\ cache' = o.cache
              /\ authAt' = IF authOK THEN [authAt EXCEPT ![gh] = now] ELSE authAt
              /\ last' = Request("gateway", hdr, res, atExp, evalErr, hdr.token.claims.role, o,
                                 authOK /\ ghUsers[GHLoginOf(gh)] = NoUser,
                                 IF gh \in GhTokens THEN authAt[gh] ELSE NoEntry)
    /\ UNCHANGED <<authMode, now, ticks, sessions, inflight, deleted>>
    /\ UNCHANGED <<cveVars, userVars, localVars>>

\* GitHubCallbackHandler: the code is exchanged for an access token, the user is
\* authenticated with it and a session token is handed out.
\* exch: the exchange fails in transport ("neterr"), its body cannot be read
\* ("readerr"), it carries no access_token ("notoken": the identity fetch is then
\* refused), or it carries the access token at.
ExchangeResponses == {"neterr", "readerr", "notoken", "ok"}

CallbackOutcome(exch, at, userResp, orgResp, dbErr, u, c, t) ==
    IF exch = "neterr"
       THEN Outcome(500, TRUE, <<"exchange">>, FALSE, FALSE, NoAuth(u, c))
    ELSE IF exch = "readerr"
       THEN Outcome(403, TRUE, <<"exchange">>, FALSE, FALSE, NoAuth(u, c))
    ELSE LET a == IF exch = "notoken"
                     THEN AuthResult(TRUE, NoUser, u, c, 1, 0, "none")
                     ELSE authenticateGitHubUser(at, userResp, orgResp, dbErr, u, c, t)
         IN  IF a.err
                THEN Outcome(403, TRUE, <<"exchange", "authenticate">>, FALSE, TRUE, a)
                ELSE Outcome(200, FALSE, <<"exchange", "authenticate", "jwt">>, FALSE, TRUE, a)

GitHubCallbackHandler ==
    /\ authMode = "github"
    /\ last = NoRequest
    /\ \E exch \in ExchangeResponses :
       \E at \in (IF exch = "ok" THEN GhTokens ELSE {"gt1"}) :
       \E in \in (IF exch = "ok" THEN AuthInputs ELSE {DefaultAuthInput}) :
          LET o == CallbackOutcome(exch, at, in.userResp, in.orgResp, in.dbErr,
                                   ghUsers, cache, now)
              a == authenticateGitHubUser(at, in.userResp, in.orgResp, in.dbErr,
                                          ghUsers, cache, now)
              jwt == generateJWTToken(a.user, now)
              authOK == o.authRan /\ ~o.authErr
          IN  /\ authOK => (jwt \in sessions \/ Cardinality(sessions) < MaxSessions)
              /\ ghUsers' = o.users
              /\ cache' = o.cache
              /\ sessions' = IF authOK THEN sessions \cup {jwt} ELSE sessions
              /\ authAt' = IF authOK THEN [authAt EXCEPT ![at] = now] ELSE authAt
              /\ last' = Request("callback",
                                 Header(0, "", IF authOK THEN jwt ELSE NoToken),
                                 <<"/github/callback", "GET">>, FALSE, FALSE, "", o,
                                 authOK /\ ghUsers[GHLoginOf(at)] = NoUser, authAt[at])
    /\ UNCHANGED <<authMode, now, ticks, inflight, deleted>>
    /\ UNCHANGED <<cveVars, userVars, localVars>>

\* The Authorizator of the local strategy (NewJwtMiddleware), called by gin-jwt's
\* middleware with the claims of a verified token: on false the middleware answers
\* 403 and aborts.
Authorizator(role, res, evalErr) ==
    LET e == Enforce(role, res[1], res[2], evalErr)
    IN  IF e.err THEN FALSE ELSE e.ok

LocalMiddlewareFunc ==
    /\ authMode = "local"
    /\ last = NoRequest
    /\ \E role \in Roles, res \in Resources, evalErr \in BOOLEAN :
          LET ok == Authorizator(role, res, evalErr)
              o == Outcome(IF ok THEN 200 ELSE 403, ~ok, <<"authorizator">>,
                           FALSE, FALSE, NoAuth(ghUsers, cache))
          IN  last' = Request("local", Header(0, "", NoToken), res, FALSE, evalErr, role, o,
                              FALSE, NoEntry)
    /\ UNCHANGED <<authMode, now, ticks, ghUsers, cache, sessions, authAt, inflight, deleted>>
    /\ UNCHANGED <<cveVars, userVars, localVars>>

\* Time passes. Only the order of now against the expiry of a session and of a
\* cache entry matters, so the clock moves to an instant next to one of them.
SessionInstants == {t.claims.exp + d : t \in sessions, d \in {-1, 0, 1}}

CacheInstants == {cache[k] + d : k \in {x \in GhTokens : cache[x] # NoEntry}, d \in {0, 1}}

Instants == SessionInstants \cup CacheInstants

Tick ==
    /\ last = NoRequest
    /\ ticks < MaxTicks
    /\ \E t \in Instants :
          /\ t > now
          /\ now' = t
    /\ ticks' = ticks + 1
    /\ UNCHANGED <<authMode, ghUsers, cache, sessions, authAt, last, inflight, deleted>>
    /\ UNCHANGED <<cveVars, userVars, localVars>>

\* The response has been written: the next request is taken.
Respond ==
    /\ last # NoRequest
    /\ last' = NoRequest
    /\ UNCHANGED <<authMode, now, ticks, ghUsers, cache, sessions, authAt, inflight, deleted>>
    /\ UNCHANGED <<cveVars, userVars, localVars>>

----------------------------------------------------------------------------
(* The handlers step by step. A handler goroutine blocks in                 *)
(* http.DefaultClient.Do until the identity provider has answered, and it    *)
(* reads and writes the user bucket in separate transactions; the requests   *)
(* of an administrator are served by other goroutines between its steps.     *)

\* pc: "exchange", "user", "orgs": blocked in Do for that call; "getuser": about
\* to read the Account; "answer": about to write it and to answer; "done": the
\* response is written. user: the Account db.GetUser returned. adminRole: the
\* role an administrator gave the Account while the request was in flight.
Flight(kind, pc, hdr, at, exch, in, user, adminRole, write, status) ==
    [kind |-> kind, pc |-> pc, hdr |-> hdr, at |-> at, exch |-> exch,
     userResp |-> in.userResp, orgResp |-> in.orgResp, user |-> user,
     adminRole |-> adminRole, write |-> write, status |-> status]

NoFlight ==
    Flight("none", "idle", Header(0, "", NoToken), "gt1", "neterr",
           AuthInput("neterr", NoOrgResponse, FALSE), NoUser, "", "none", 0)

Blocked == inflight.pc \in {"exchange", "user", "orgs"}
InFlight == inflight.kind # "none" /\ inflight.pc # "done"

\* GET /github/callback arrives: the handler posts the code to
\* github.com/login/oauth/access_token and waits in http.DefaultClient.Do
CallbackBegin ==
    /\ authMode = "github"
    /\ inflight = NoFlight
    /\ last = NoRequest
    /\ Cardinality(sessions) < MaxSessions
    /\ inflight' = [NoFlight EXCEPT !.kind = "callback", !.pc = "exchange"]
    /\ UNCHANGED <<authMode, now, ticks, ghUsers, cache, sessions, authAt, last, deleted>>
    /\ UNCHANGED <<cveVars, userVars, localVars>>

\* a request with a session token arrives at GitHubMiddlewareFunc: on a cache hit
\* it goes on to the ACL, otherwise authenticateGitHubUser sends GET /user
GatewayBegin ==
    /\ authMode = "github"
    /\ inflight = NoFlight
    /\ last = NoRequest
    /\ \E t \in sessions :
          LET hdr == Header(2, "Bearer", t) IN
          /\ ReachesCache(hdr, FALSE, now)
          /\ inflight' = [NoFlight EXCEPT
                             !.kind = "gateway", !.hdr = hdr, !.at = t.claims.gh,
                             !.pc = IF CacheGet(cache, t.claims.gh, now) THEN "answer" ELSE "user"]
    /\ UNCHANGED <<authMode, now, ticks, ghUsers, cache, sessions, authAt, last, deleted>>
    /\ UNCHANGED <<cveVars, userVars, localVars>>

\* http.DefaultClient.Do returns: the identity provider has answered, or the
\* transport has failed. The client has no Timeout and the request no deadline,
\* so nothing else ends the wait.
DoReturns ==
    /\ Blocked
    /\ \/ /\ inflight.pc = "exchange"
          /\ \E exch \in ExchangeResponses, at \in GhTokens :
                inflight' = [inflight EXCEPT
                                !.exch = exch,
                                !.at = IF exch = "ok" THEN at ELSE @,
                                !.pc = IF exch \in {"ok", "notoken"} THEN "user" ELSE "answer"]
       \/ /\ inflight.pc = "user"
          \* without an access token the identity fetch is refused
          /\ \E r \in (IF inflight.kind = "callback" /\ inflight.exch = "notoken"
                          THEN UserResponses \ {"ok"} ELSE UserResponses) :
                inflight' = [inflight EXCEPT
                                !.userResp = r,
                                !.pc = IF r = "ok" THEN "orgs" ELSE "answer"]
       \/ /\ inflight.pc = "orgs"
          /\ \E o \in OrgResponses :
                inflight' = [inflight EXCEPT
                                !.orgResp = o,
                                !.pc = IF userMemberOfRequiredOrg(o, GitHubUserOrgs)
                                          THEN "getuser" ELSE "answer"]
    /\ UNCHANGED <<authMode, now, ticks, ghUsers, cache, sessions, authAt, last, deleted>>
    /\ UNCHANGED <<cveVars, userVars, localVars>>

\* user, err := m.db.GetUser(username)
GetUserStep ==
    /\ inflight.pc = "getuser"
    /\ inflight' = [inflight EXCEPT !.user = ghUsers[GHLoginOf(inflight.at)], !.pc = "answer"]
    /\ UNCHANGED <<authMode, now, ticks, ghUsers, cache, sessions, authAt, last, deleted>>
    /\ UNCHANGED <<cveVars, userVars, localVars>>

\* The rest of the handler: authenticateGitHubUser decides on the Account it has
\* read and writes that record back with CreateUser or UpdateUser, and the
\* response is written.
AnswerRequest ==
    /\ inflight.pc = "answer"
    /\ LET login == GHLoginOf(inflight.at)
           read == [ghUsers EXCEPT ![login] = inflight.user]
           writes == inflight.userResp = "ok"
                     /\ userMemberOfRequiredOrg(inflight.orgResp, GitHubUserOrgs)
                     /\ (inflight.user = NoUser \/ inflight.user.GitHubToken # inflight.at)
       IN
       \E dbErr \in (IF writes THEN BOOLEAN ELSE {FALSE}) :
       \E res \in (IF inflight.kind = "gateway" THEN Resources
                   ELSE {<<"/github/callback", "GET">>}) :
       \E evalErr \in (IF inflight.kind = "gateway" THEN BOOLEAN ELSE {FALSE}) :
          LET a == authenticateGitHubUser(inflight.at, inflight.userResp, inflight.orgResp,
                                          dbErr, read, cache, now)
              o == IF inflight.kind = "gateway"
                      THEN GatewayOutcome(inflight.hdr, res, FALSE, inflight.userResp,
                                          inflight.orgResp, dbErr, evalErr, read, cache, now)
                      ELSE CallbackOutcome(inflight.exch, inflight.at, inflight.userResp,
                                           inflight.orgResp, dbErr, read, cache, now)
              authOK == o.authRan /\ ~o.authErr
              jwt == generateJWTToken(a.user, now)
              isCallback == inflight.kind = "callback"
          IN  /\ ghUsers' = IF o.write = "none" THEN ghUsers
                            ELSE [ghUsers EXCEPT ![login] = o.users[login]]
              /\ cache' = o.cache
              /\ sessions' = IF isCallback /\ authOK THEN sessions \cup {jwt} ELSE sessions
              /\ authAt' = IF authOK THEN [authAt EXCEPT ![inflight.at] = now] ELSE authAt
              /\ deleted' = IF isCallback /\ authOK THEN deleted \ {login} ELSE deleted
              /\ last' = Request(inflight.kind,
                                 IF isCallback
                                    THEN Header(0, "", IF authOK THEN jwt ELSE NoToken)
                                    ELSE inflight.hdr,
                                 res, FALSE, evalErr,
                                 IF isCallback THEN "" ELSE inflight.hdr.token.claims.role,
                                 o, o.write = "create", authAt[inflight.at])
              /\ inflight' = [inflight EXCEPT !.pc = "done", !.write = o.write,
                                              !.status = o.status]
    /\ UNCHANGED <<authMode, now, ticks>>
    /\ UNCHANGED <<cveVars, userVars, localVars>>

\* the connection is done with: the goroutine takes the next request
Finish ==
    /\ inflight.pc = "done"
    /\ inflight' = NoFlight
    /\ last' = NoRequest
    /\ UNCHANGED <<authMode, now, ticks, ghUsers, cache, sessions, authAt, deleted>>
    /\ UNCHANGED <<cveVars, userVars, localVars>>

\* DELETE /admin/api/v1/users/:username by an administrator
DeleteUser ==
    /\ authMode = "github"
    /\ \E l \in Logins :
          /\ ghUsers[l] # NoUser
          /\ ghUsers' = [ghUsers EXCEPT ![l] = NoUser]
          /\ deleted' = deleted \cup {l}
    /\ UNCHANGED <<authMode, now, ticks, cache, sessions, authAt, last, inflight>>
    /\ UNCHANGED <<cveVars, userVars, localVars>>

\* PUT /admin/api/v1/users/:username/role/:role by an administrator
SetUserRole ==
    /\ authMode = "github"
    /\ \E l \in Logins, role \in Roles :
          /\ ghUsers[l] # NoUser
          /\ ghUsers[l].Role # role
          /\ ghUsers' = [ghUsers EXCEPT ![l].Role = role]
          /\ inflight' = IF InFlight /\ GHLoginOf(inflight.at) = l
                            THEN [inflight EXCEPT !.adminRole = role]
                            ELSE inflight
    /\ UNCHANGED <<authMode, now, ticks, cache, sessions, authAt, last, deleted>>
    /\ UNCHANGED <<cveVars, userVars, localVars>>

\* time passes between two requests
FlightTick ==
    /\ inflight = NoFlight
    /\ Tick

AuthInit ==
    /\ authMode \in {"github", "local"}
    /\ now = 0
    /\ ticks = 0
    /\ ghUsers = [l \in Logins |-> NoUser]
    /\ cache = [k \in GhTokens |-> NoEntry]
    /\ sessions = {}
    /\ authAt = [k \in GhTokens |-> NoEntry]
    /\ last = NoRequest
    /\ inflight = NoFlight
    /\ deleted = {}

----------------------------------------------------------------------------
(* Claims about the GitHub gateway.                                         *)

IsGateway == last.kind = "gateway"
IsBearer == last.hdr.n = 2 /\ ToLower(last.hdr.scheme) = "bearer"
PassedParse == Len(last.steps) > 3
RejectedAtParse ==
    last.steps = <<"header", "bearer", "parse">> /\ last.status = 403 /\ last.aborted

\* C1: a request to a route behind GitHubMiddlewareFunc reaches its handler only
\* if, in this order, the Authorization header had the form Bearer <token>, the
\* token's signature and expiry verified under the configured secret, its claims
\* were not empty, the embedded access token was cache-hot or
\* authenticateGitHubUser succeeded for it, and ACL.Enforce answered true without
\* error; otherwise the request is aborted.
C1_HandlerOnlyAfterAllChecks ==
    (IsGateway /\ ~last.aborted) =>
       LET tok == last.hdr.token IN
       /\ last.status = 200
       /\ IsBearer
       /\ tok.sig = SignedString("HS256", JWTSecretKey, tok.claims)
       /\ ("exp" \in tok.claims.keys /\ tok.claims.exp # 0) => last.at <= tok.claims.exp
       /\ tok.claims.keys # {}
       /\ \/ last.cacheHot /\ ~last.authRan
          \/ ~last.cacheHot /\ last.authRan /\ ~last.authErr
       /\ ~last.evalErr
       /\ <<tok.claims.role, last.res[1], last.res[2]>> \in ACLPolicy
       /\ last.steps \in
             {<<"header", "bearer", "parse", "claims", "cast", "cache", "enforce">>,
              <<"header", "bearer", "parse", "claims", "cast", "cache", "authenticate", "enforce">>}

\* a request passed on to the handler after a cache miss and a fresh authentication
C1_Witness ==
    /\ IsGateway /\ ~last.aborted
    /\ last.authRan /\ ~last.cacheHot

\* C2: whenever the policy evaluator returns an error the request is denied: the
\* GitHub gateway aborts with 403 and the local Authorizator returns false (403).
C2_EvaluatorErrorDenies ==
    (last.kind \in {"gateway", "local"} /\ last.evalErr) =>
       last.aborted /\ last.status = 403

\* the gateway asked the evaluator, which failed
C2_Witness ==
    /\ IsGateway /\ last.evalErr
    /\ last.steps[Len(last.steps)] = "enforce"
    /\ last.status = 403

\* C3: after authenticateGitHubUser succeeds for an access token, a gateway
\* request carrying that token within the next 5 minutes sends no identity and no
\* org request, whether the authentication created the Account, rotated its token
\* or found it unchanged.
C3_NoFetchWithinFiveMinutes ==
    (/\ IsGateway
     /\ last.hdr.token \in sessions
     /\ "cache" \in Range(last.steps)
     /\ last.authAtPre # NoEntry
     /\ last.at <= last.authAtPre + CacheTTL)
    => (last.idCalls = 0 /\ last.orgCalls = 0)

\* the request got as far as the cache lookup, with this entry for its access token
AtCache == IsGateway /\ "cache" \in Range(last.steps)
EntryPre == last.cachePre[last.hdr.token.claims.gh]

\* C30: a validity-cache entry never admits a request more than 5 minutes after
\* the token's most recent successful authentication: while the entry is live the
\* request is admitted to the ACL check without an identity or org request, and
\* once it has expired the next gateway request runs authenticateGitHubUser
\* again, identity fetch and org gate, and is answered 403 when that fails.
C30_CacheEntryBoundsStaleness ==
    AtCache =>
       /\ last.cacheHot =>
             /\ last.authAtPre # NoEntry
             /\ last.at <= last.authAtPre + CacheTTL
             /\ ~last.authRan /\ last.idCalls = 0 /\ last.orgCalls = 0
       /\ (EntryPre # NoEntry /\ last.at <= EntryPre) => last.cacheHot
       /\ (EntryPre # NoEntry /\ last.at > EntryPre) =>
             /\ ~last.cacheHot /\ last.authRan /\ last.idCalls = 1
             /\ ~last.authErr => last.orgCalls = 1
             /\ last.authErr => (last.status = 403 /\ last.aborted)

\* a request one second after the entry expired, refused because the
\* authentication it ran again failed
C30_Witness ==
    /\ AtCache
    /\ EntryPre # NoEntry
    /\ last.at = EntryPre + 1
    /\ last.authRan /\ last.authErr /\ last.idCalls = 1 /\ last.orgCalls = 1
    /\ last.status = 403

\* C9: a session token issued at t is accepted at t + 12h - 1s and rejected at
\* t + 12h + 1s; no token is accepted after its expiry, and a token whose
\* signature does not verify is never accepted.
C9_SessionExpiryBoundary ==
    (IsGateway /\ IsBearer) =>
       LET tok == last.hdr.token IN
       /\ (tok \in sessions /\ last.at = tok.claims.iat + Timeout - 1) => PassedParse
       /\ (tok \in sessions /\ last.at >= tok.claims.iat + Timeout + 1) => RejectedAtParse
       /\ ("exp" \in tok.claims.keys /\ tok.claims.exp # 0 /\ last.at > tok.claims.exp)
             => RejectedAtParse
       /\ tok.sig # SignedString(tok.alg, JWTSecretKey, tok.claims) => RejectedAtParse

\* a session presented one second before its expiry, and accepted
C9_Witness ==
    /\ IsGateway /\ IsBearer
    /\ last.hdr.token \in sessions
    /\ last.at = last.hdr.token.claims.iat + Timeout - 1
    /\ PassedParse

\* a session presented one second after its expiry, and rejected
C9_WitnessExpired ==
    /\ IsGateway /\ IsBearer
    /\ last.hdr.token \in sessions
    /\ last.at = last.hdr.token.claims.iat + Timeout + 1
    /\ RejectedAtParse

\* C10: the gateway accepts only tokens whose header declares HS256: a token
\* declaring any other algorithm is rejected with 403 before its claims are used,
\* whatever its signature and claims.
C10_OnlyHS256 ==
    (IsGateway /\ IsBearer /\ last.hdr.token.alg # "HS256") => RejectedAtParse

\* an HS512 token signed with the configured secret, rejected
C10_Witness ==
    /\ IsGateway /\ IsBearer
    /\ last.hdr.token.alg = "HS512"
    /\ last.hdr.token.sig = SignedString("HS512", JWTSecretKey, last.hdr.token.claims)
    /\ RejectedAtParse

----------------------------------------------------------------------------
(* Gem versions and version constraints (aquasecurity/go-gem-version).      *)
(* A version is its numeric segments; a string NewVersion cannot parse is   *)
(* BadVersion. A constraint string is the conjunction of its comma          *)
(* separated atoms; one NewConstraints cannot parse is BadConstraint.       *)

BadVersion == <<-1>>

NewVersion(version) == [err |-> version = BadVersion, v |-> version]

Seg(v, i) == IF i <= Len(v) THEN v[i] ELSE 0

RECURSIVE CompareFrom(_, _, _)
CompareFrom(a, b, i) ==
    IF i > Len(a) /\ i > Len(b) THEN 0
    ELSE IF Seg(a, i) < Seg(b, i) THEN -1
    ELSE IF Seg(a, i) > Seg(b, i) THEN 1
    ELSE CompareFrom(a, b, i + 1)

\* Version.Compare: segment by segment, a missing segment counting as 0
Compare(a, b) == CompareFrom(a, b, 1)

\* the upper end of "~> v": the last segment dropped, the one before it raised
Bump(v) ==
    IF Len(v) <= 1 THEN <<v[1] + 1>>
    ELSE [i \in 1..(Len(v) - 1) |-> IF i = Len(v) - 1 THEN v[i] + 1 ELSE v[i]]

Atom(op, ver) == [op |-> op, ver |-> ver]

CheckAtom(a, v) ==
    CASE a.op = "="  -> Compare(v, a.ver) = 0
      [] a.op = "!=" -> Compare(v, a.ver) # 0
      [] a.op = ">"  -> Compare(v, a.ver) > 0
      [] a.op = "<"  -> Compare(v, a.ver) < 0
      [] a.op = ">=" -> Compare(v, a.ver) >= 0
      [] a.op = "<=" -> Compare(v, a.ver) <= 0
      [] a.op = "~>" -> Compare(v, a.ver) >= 0 /\ Compare(v, Bump(a.ver)) < 0
      [] OTHER       -> FALSE

BadConstraint == <<Atom("?", << >>)>>

\* c, _ := NewConstraints(pv); c.Check(version): the constraints left by a failed
\* parse check nothing
Check(pv, v) ==
    /\ pv # BadConstraint
    /\ \A i \in DOMAIN pv : CheckAtom(pv[i], v)

----------------------------------------------------------------------------
(* Advisories. CVSS scores are in tenths: 75 is 7.5, 0 is absent.           *)

GemAdvisory(cve, v2, v3, patched, unaffected) ==
    [Cve |-> cve, CvssV2 |-> v2, CvssV3 |-> v3,
     PatchedVersions |-> patched, UnaffectedVersions |-> unaffected]

\* GemAdvisory{}
NoAdvisory == GemAdvisory("", 0, 0, << >>, << >>)

severity(cve) ==
    IF cve.CvssV3 # 0
       THEN IF cve.CvssV3 = 0 THEN "none"
            ELSE IF cve.CvssV3 >= 1 /\ cve.CvssV3 <= 39 THEN "low"
            ELSE IF cve.CvssV3 >= 40 /\ cve.CvssV3 <= 69 THEN "medium"
            ELSE IF cve.CvssV3 >= 70 /\ cve.CvssV3 <= 89 THEN "high"
            ELSE IF cve.CvssV3 >= 90 /\ cve.CvssV3 <= 100 THEN "critical"
            ELSE "none"
    ELSE IF cve.CvssV2 # 0
       THEN IF cve.CvssV2 = 0 /\ cve.CvssV2 <= 39 THEN "low"
            ELSE IF cve.CvssV2 >= 40 /\ cve.CvssV2 <= 69 THEN "medium"
            ELSE IF cve.CvssV2 >= 70 /\ cve.CvssV2 <= 100 THEN "high"
            ELSE "none"
    ELSE "none"

\* the variant whose medium threshold lets high through
acceptableSeverityMediumAllowsHigh(cve, maxSeverity) ==
    LET sev == severity(cve)
        highestSeverity == ToLower(maxSeverity)
    IN  IF sev = "none" \/ highestSeverity = "critical" THEN TRUE
        ELSE IF highestSeverity = "low" THEN FALSE
        ELSE IF highestSeverity = "medium" THEN sev = "low" \/ sev = "medium" \/ sev = "high"
        ELSE IF highestSeverity = "high" THEN sev = "low" \/ sev = "medium" \/ sev = "high"
        ELSE TRUE

\* acceptableSeverity(cve) under config.Cfg.CVE.MaxSeverity = maxSeverity
acceptableSeverity(cve, maxSeverity) ==
    LET sev == severity(cve)
        highestSeverity == ToLower(maxSeverity)
    IN  IF sev = "none" \/ highestSeverity = "critical" THEN TRUE
        ELSE IF highestSeverity = "low" THEN FALSE
        ELSE IF highestSeverity = "medium" THEN sev = "low" \/ sev = "medium"
        ELSE IF highestSeverity = "high" THEN sev = "low" \/ sev = "medium" \/ sev = "high"
        ELSE TRUE

\* the variant that wants every constraint satisfied
isPatchedVersionAll(version, cve) ==
    /\ cve.PatchedVersions # << >>
    /\ \A i \in DOMAIN cve.PatchedVersions : Check(cve.PatchedVersions[i], version)

isPatchedVersion(version, cve) ==
    \E i \in DOMAIN cve.PatchedVersions : Check(cve.PatchedVersions[i], version)

isUnaffectedVersion(version, cve) ==
    \E i \in DOMAIN cve.UnaffectedVersions : Check(cve.UnaffectedVersions[i], version)

\* The advisory cache: gem -> [found, list]. A gem never Set is not found.
NotFound == [found |-> FALSE, list |-> << >>]
Found(list) == [found |-> TRUE, list |-> list]

\* (bool, GemAdvisory, error) of isPatched and isUnaffected
Verdict(ok, cve, err) == [ok |-> ok, cve |-> cve, err |-> err]

\* the variant that reports the first advisory for a version it cannot parse
isPatchedReportsOnBadVersion(db, gem, version) ==
    IF ~db[gem].found THEN Verdict(TRUE, NoAdvisory, FALSE)
    ELSE IF NewVersion(version).err
       THEN Verdict(FALSE, IF db[gem].list = << >> THEN NoAdvisory ELSE db[gem].list[1], TRUE)
    ELSE LET cves == db[gem].list
             bad == {i \in DOMAIN cves : ~isPatchedVersion(version, cves[i])}
         IN  IF bad = {} THEN Verdict(TRUE, NoAdvisory, FALSE)
             ELSE Verdict(FALSE, cves[CHOOSE i \in bad : \A j \in bad : i <= j], FALSE)

isPatched(db, gem, version) ==
    IF ~db[gem].found THEN Verdict(TRUE, NoAdvisory, FALSE)
    ELSE IF NewVersion(version).err THEN Verdict(FALSE, NoAdvisory, TRUE)
    ELSE LET cves == db[gem].list
             bad == {i \in DOMAIN cves : ~isPatchedVersion(version, cves[i])}
         IN  IF bad = {} THEN Verdict(TRUE, NoAdvisory, FALSE)
             ELSE Verdict(FALSE, cves[CHOOSE i \in bad : \A j \in bad : i <= j], FALSE)

isUnaffected(db, gem, version) ==
    IF ~db[gem].found THEN Verdict(TRUE, NoAdvisory, FALSE)
    ELSE IF NewVersion(version).err THEN Verdict(FALSE, NoAdvisory, TRUE)
    ELSE LET cves == db[gem].list
             bad == {i \in DOMAIN cves : ~isUnaffectedVersion(version, cves[i])}
         IN  IF bad = {} THEN Verdict(TRUE, NoAdvisory, FALSE)
             ELSE Verdict(FALSE, cves[CHOOSE i \in bad : \A j \in bad : i <= j], FALSE)

GetCVEs(db, gem, version, maxSeverity) ==
    LET p == isPatched(db, gem, version)
        cve1 == p.cve
        first == IF ~acceptableSeverity(cve1, maxSeverity) THEN <<cve1>> ELSE << >>
        u == isUnaffected(db, gem, version)
        cve2 == u.cve
    IN  IF ~p.ok
           THEN IF ~u.ok
                   THEN IF cve2.Cve # cve1.Cve /\ ~acceptableSeverity(cve1, maxSeverity)
                           THEN Append(first, cve2)
                           ELSE first
                   ELSE first
           ELSE << >>

----------------------------------------------------------------------------
(* The advisories, versions and thresholds the model draws its inputs from. *)

Gems == {"activerecord", "rack"}

\* filepath.Walk visits directories in lexical order
GemOrder == <<"activerecord", "rack">>

AdvHigh == GemAdvisory("CVE-1", 0, 75, << <<Atom(">=", <<4, 2, 1>>)>> >>,
                       << <<Atom("<", <<4, 0>>)>> >>)
AdvLow == GemAdvisory("CVE-2", 0, 30, << <<Atom(">=", <<4, 2, 2>>)>> >>, << >>)
AdvV2High == GemAdvisory("CVE-3", 80, 0,
                         << <<Atom("~>", <<4, 1, 5>>), Atom(">=", <<4, 1, 6>>)>>,
                            <<Atom(">=", <<4, 2, 2>>)>> >>,
                         << <<Atom("<", <<3, 0>>)>>, BadConstraint >>)
AdvNoScore == GemAdvisory("CVE-4", 0, 0, << >>, << >>)
AdvCritical == GemAdvisory("CVE-5", 0, 95, << <<Atom(">=", <<5, 0>>)>> >>,
                           << <<Atom("<", <<4, 2, 1>>)>> >>)

AdvisoryPool == {AdvHigh, AdvLow, AdvV2High, AdvNoScore, AdvCritical}

\* the lists of up to MaxAdvisories different advisories
RECURSIVE ListsUpTo(_)
ListsUpTo(n) ==
    IF n = 0 THEN {<< >>}
    ELSE LET shorter == ListsUpTo(n - 1)
         IN  shorter \cup {Append(l, a) : l \in {x \in shorter : Len(x) = n - 1},
                                          a \in AdvisoryPool}

AdvisoryLists ==
    {l \in ListsUpTo(MaxAdvisories) :
        Len(l) > 0 /\ \A i, j \in DOMAIN l : i # j => l[i] # l[j]}

VersionInputs ==
    {<<3, 9>>, <<4, 1, 7>>, <<4, 2, 0>>, <<4, 2, 1>>, <<4, 2, 2>>, <<5, 0>>, BadVersion}

MaxSeverityInputs == {"low", "medium", "Medium", "high", "critical"}

NoCall == [gem |-> "", version |-> << >>, maxSeverity |-> ""]

\* A request for a gem version asks GetCVEs, with the cache as the last build left it.
GetCVEsCall ==
    /\ rpc = "idle"
    /\ \E gem \in Gems, version \in VersionInputs, maxSeverity \in MaxSeverityInputs :
          /\ cveIn' = [gem |-> gem, version |-> version, maxSeverity |-> maxSeverity]
          /\ cveOut' = GetCVEs(advisoryDB, gem, version, maxSeverity)
    /\ UNCHANGED <<advisoryDB, tree, walk, rpc, cacheKey, builds, prevBuild, observed, sync>>
    /\ UNCHANGED <<authVars, userVars, localVars>>

----------------------------------------------------------------------------
(* InitRubyAdvisoryDB: the source tree is updated, the cache is closed and  *)
(* cacheAdvisoryDB walks the tree, appending each advisory file to the list *)
(* of the directory it is in.                                               *)

EmptyTree == [g \in Gems |-> << >>]

\* the source trees a clone or pull may leave on disk
Trees ==
    {[g \in Gems |-> IF g = "activerecord" THEN a ELSE r] :
        a \in {<< >>, <<AdvHigh>>, <<AdvHigh, AdvLow>>}, r \in {<< >>, <<AdvNoScore>>}}

Dir(name) == [dir |-> TRUE, name |-> name, adv |-> NoAdvisory]
File(adv) == [dir |-> FALSE, name |-> adv.Cve, adv |-> adv]

\* what filepath.Walk(RubyAdvisoryDBDir + "/gems") visits, in order: the root,
\* then each gem directory followed by its files
RECURSIVE WalkGems(_, _)
WalkGems(tr, i) ==
    IF i > Len(GemOrder) THEN << >>
    ELSE LET g == GemOrder[i]
             here == IF tr[g] = << >> THEN << >>
                     ELSE <<Dir(g)>> \o [k \in DOMAIN tr[g] |-> File(tr[g][k])]
         IN  here \o WalkGems(tr, i + 1)

WalkOrder(tr) == <<Dir("gems")>> \o WalkGems(tr, 1)

\* cacheAdvisoryDB(path): without the directory os.Stat fails and nothing is walked
cacheAdvisoryDBWalk(exists, tr) == IF exists THEN WalkOrder(tr) ELSE << >>

\* the cache a finished walk of tr leaves
CompleteCache(tr) == [g \in Gems |-> IF tr[g] = << >> THEN NotFound ELSE Found(tr[g])]

EmptyCache == [g \in Gems |-> NotFound]

\* exists: RubyAdvisoryDBDir is on disk; step: what updateAdvisoryRepo did;
\* err: updateAdvisoryRepo returned an error; result: what InitRubyAdvisoryDB
\* returned, "running" until it has
Sync(exists, step, err, result) == [exists |-> exists, step |-> step, err |-> err, result |-> result]

NoSync == Sync(FALSE, "none", FALSE, "none")

\* what git does for updateAdvisoryRepo
CloneOutcomes == {"cloned", "clone failed"}
PullOutcomes == {"open failed", "worktree failed", "pulled", "already up-to-date", "pull failed"}

\* the variant that returns the error of a failed pull
updateAdvisoryRepoReturnsPullError(exists, git) ==
    IF ~exists
       THEN Sync(git = "cloned", git, git = "clone failed", "running")
       ELSE Sync(TRUE, git, git \in {"open failed", "worktree failed", "pull failed"}, "running")

\* updateAdvisoryRepo: clone when os.Stat finds no directory, else open and
\* pull; only a failed clone, open or worktree is returned as an error
updateAdvisoryRepo(exists, git) ==
    IF ~exists
       THEN Sync(git = "cloned", git, git = "clone failed", "running")
       ELSE Sync(TRUE, git, git \in {"open failed", "worktree failed"}, "running")

\* InitRubyAdvisoryDB up to getCache().Close(): it logs an error of
\* updateAdvisoryRepo and goes on. A clone or a pull leaves some tree on disk;
\* every other outcome leaves the disk as it was.
UpdateAdvisoryRepo ==
    /\ rpc = "idle"
    /\ builds < MaxBuilds
    /\ builds' = builds + 1
    /\ \E git \in IF sync.exists THEN PullOutcomes ELSE CloneOutcomes :
          /\ sync' = updateAdvisoryRepo(sync.exists, git)
          /\ IF git \in {"cloned", "pulled"}
                THEN \E tr \in Trees : tree' = tr
                ELSE tree' = tree
    /\ rpc' = "close"
    /\ UNCHANGED <<advisoryDB, walk, cacheKey, prevBuild, observed, cveIn, cveOut>>
    /\ UNCHANGED <<authVars, userVars, localVars>>

\* the variant whose Close keeps the items
CacheCloseKeepsItems ==
    /\ rpc = "close"
    /\ advisoryDB' = advisoryDB
    /\ walk' = cacheAdvisoryDBWalk(sync.exists, tree)
    /\ cacheKey' = ""
    /\ rpc' = "walk"
    /\ UNCHANGED <<tree, builds, prevBuild, observed, cveIn, cveOut, sync>>
    /\ UNCHANGED <<authVars, userVars, localVars>>

\* getCache().Close(): the cache drops every item
CacheClose ==
    /\ rpc = "close"
    /\ advisoryDB' = EmptyCache
    /\ walk' = cacheAdvisoryDBWalk(sync.exists, tree)
    /\ cacheKey' = ""
    /\ rpc' = "walk"
    /\ UNCHANGED <<tree, builds, prevBuild, observed, cveIn, cveOut, sync>>
    /\ UNCHANGED <<authVars, userVars, localVars>>

Visit(db, key, entry) ==
    IF entry.dir THEN db
    ELSE LET a == db[key]
             advisories == IF a.found THEN Append(a.list, entry.adv) ELSE <<entry.adv>>
         IN  [db EXCEPT ![key] = Found(advisories)]

\* one call of the walk function
WalkStep ==
    /\ rpc = "walk"
    /\ walk # << >>
    /\ LET entry == Head(walk)
       IN  /\ cacheKey' = IF entry.dir THEN entry.name ELSE cacheKey
           /\ advisoryDB' = Visit(advisoryDB, cacheKey, entry)
    /\ walk' = Tail(walk)
    /\ UNCHANGED <<tree, rpc, builds, prevBuild, observed, cveIn, cveOut, sync>>
    /\ UNCHANGED <<authVars, userVars, localVars>>

\* the walk is over and InitRubyAdvisoryDB returns nil
WalkDone ==
    /\ rpc = "walk"
    /\ walk = << >>
    /\ rpc' = "idle"
    /\ prevBuild' = advisoryDB
    /\ sync' = [sync EXCEPT !.result = IF sync.exists THEN "nil" ELSE "failed to cache"]
    /\ UNCHANGED <<advisoryDB, tree, walk, cacheKey, builds, observed, cveIn, cveOut>>
    /\ UNCHANGED <<authVars, userVars, localVars>>

NoObservation ==
    [gem |-> "", val |-> NotFound, prev |-> NotFound, new |-> NotFound, during |-> FALSE]

\* a request's getCache().Get(gem), at any moment
ReaderGet ==
    /\ \E g \in Gems :
          observed' = [gem |-> g, val |-> advisoryDB[g], prev |-> prevBuild[g],
                       new |-> CompleteCache(tree)[g], during |-> rpc # "idle"]
    /\ UNCHANGED <<advisoryDB, tree, walk, rpc, cacheKey, builds, prevBuild, cveIn, cveOut, sync>>
    /\ UNCHANGED <<authVars, userVars, localVars>>

----------------------------------------------------------------------------
(* Claims about the advisory cache and GetCVEs.                              *)

\* C4: while InitRubyAdvisoryDB rebuilds the cache, a concurrent reader gets for
\* each gem the complete list of the previous build or the complete list of the
\* new build, never a missing, partial or mixed list.
C4_ReaderSeesCompleteList ==
    observed.during => observed.val \in {observed.prev, observed.new}

Called == cveIn # NoCall
Parsed == ~NewVersion(cveIn.version).err
CachedList == advisoryDB[cveIn.gem].list

\* an advisory is blocking for the version asked about
Blocking(adv) ==
    /\ ~isPatchedVersion(cveIn.version, adv)
    /\ ~isUnaffectedVersion(cveIn.version, adv)
    /\ ~acceptableSeverity(adv, cveIn.maxSeverity)

\* the walk of a rebuild has visited every entry
RebuildComplete == builds > 0 /\ (rpc = "idle" \/ (rpc = "walk" /\ walk = << >>))

\* C21: after a rebuild completes, the cached list of each gem holds exactly one
\* entry per advisory file under that gem's directory, whatever the cache held
\* before: a second rebuild from the same tree leaves the same cache, and a gem
\* or advisory removed from the tree is no longer cached.
C21_RebuildMirrorsTree ==
    RebuildComplete =>
       \A g \in Gems :
          /\ advisoryDB[g].found <=> tree[g] # << >>
          /\ advisoryDB[g].list = tree[g]

\* a second rebuild, over a tree that lost an advisory of one gem and every
\* advisory of another
C21_Witness ==
    /\ builds = 2 /\ rpc = "walk" /\ walk = << >>
    /\ prevBuild["activerecord"] = Found(<<AdvHigh, AdvLow>>)
    /\ prevBuild["rack"].found
    /\ tree["activerecord"] = <<AdvHigh>>
    /\ tree["rack"] = << >>
    /\ advisoryDB["activerecord"] = Found(<<AdvHigh>>)
    /\ ~advisoryDB["rack"].found

\* C22: when the advisory source exists locally and the pull fails, the sync
\* step reports no error; the cache is rebuilt from the local copy as it was and
\* InitRubyAdvisoryDB returns success.
C22_PullFailureIsNotFatal ==
    sync.step = "pull failed" =>
       /\ sync.exists /\ ~sync.err
       /\ RebuildComplete => advisoryDB = CompleteCache(tree)
       /\ (RebuildComplete /\ rpc = "walk" /\ builds >= 2) => advisoryDB = prevBuild
       /\ (builds > 0 /\ rpc = "idle") => sync.result = "nil"

\* a failed pull over a clone holding two advisories of a gem
C22_Witness ==
    /\ sync.step = "pull failed"
    /\ rpc = "idle"
    /\ sync.result = "nil"
    /\ tree["activerecord"] = <<AdvHigh, AdvLow>>
    /\ advisoryDB["activerecord"] = Found(<<AdvHigh, AdvLow>>)

\* C5: every advisory GetCVEs returns is a cached advisory of the gem which the
\* version neither patches nor is unaffected by, and whose severity exceeds the
\* configured maximum.
C5_ReturnedAreBlocking ==
    Called =>
       \A i \in DOMAIN cveOut :
          /\ cveOut[i] \in Range(CachedList)
          /\ Parsed
          /\ Blocking(cveOut[i])

\* C6: GetCVEs returns every cached advisory of the gem that is blocking for the
\* version; its result is not empty when one exists, wherever in the list it is.
C6_AllBlockingReturned ==
    (Called /\ Parsed) =>
       \A i \in DOMAIN CachedList :
          Blocking(CachedList[i]) => CachedList[i] \in Range(cveOut)

----------------------------------------------------------------------------
(* Package models: the user bucket, bulk provisioning and data-plane tokens. *)

Usernames == {"admin", "alice", "bob", "carol"}

Salts == {1, 2}

\* bcrypt.GenerateFromPassword(pw, 14) with the salt it drew
Hash(pw, salt) == [salt |-> salt, pw |-> pw]

\* a nil Password
NoHash == [salt |-> 0, pw |-> ""]

\* bcrypt.CompareHashAndPassword(hash, pw) == nil
CompareHashAndPassword(hash, pw) == hash # NoHash /\ hash.pw = pw

\* models.User; Token 0 is the empty string, a generated token is another number
User(username, password, token) ==
    [Username |-> username, Password |-> password, Token |-> token]

\* User{}, also what a key without a value reads as
EmptyUser == User("", NoHash, 0)

GetUser(bucket, username) ==
    IF username \in DOMAIN bucket THEN bucket[username] ELSE EmptyUser

\* Bucket.Put: an empty key is refused (ErrKeyRequired), which every caller ignores
Put(bucket, key, user) ==
    IF key \in DOMAIN bucket THEN [bucket EXCEPT ![key] = user] ELSE bucket

\* Bucket.Delete
Delete(bucket, keys) ==
    [k \in DOMAIN bucket |-> IF k \in keys THEN EmptyUser ELSE bucket[k]]

GeneratedPassword == "generated"

getAdminPassword(adminPassword, salt) ==
    Hash(IF adminPassword = "" THEN GeneratedPassword ELSE adminPassword, salt)

\* (bucket afterwards, generatePassword ran and logged a password, error returned)
Booted(bucket, generated, err) == [bucket |-> bucket, generated |-> generated, err |-> err]

\* CreateAdminUserIfNotExists under config.Env.AdminPassword = adminPassword;
\* dbErr: db.BoltDB.Update fails. Its error is assigned and nil is returned.
CreateAdminUserIfNotExists(bucket, adminPassword, salt, dbErr) ==
    LET user == GetUser(bucket, "admin")
        keeps == /\ user.Username # "" /\ user.Password # NoHash
                 /\ \/ adminPassword = ""
                    \/ CompareHashAndPassword(user.Password, adminPassword)
        put == Put(bucket, "admin", User("admin", getAdminPassword(adminPassword, salt), 0))
    IN  IF keeps THEN Booted(bucket, FALSE, FALSE)
        ELSE Booted(IF dbErr THEN bucket ELSE put, adminPassword = "", FALSE)

\* A pair of AddLocalUsers is modelled by strings.Split(pair, ":"), its fields.
RECURSIVE PutPairs(_, _, _, _)
PutPairs(bucket, pairs, salts, i) ==
    IF i > Len(pairs) THEN bucket
    ELSE LET u == pairs[i]
             userToAdd == User(u[1], Hash(u[2], salts[i]), 0)
         IN  PutPairs(Put(bucket, u[1], userToAdd), pairs, salts, i + 1)

Provisioned(bucket, panicked) == [bucket |-> bucket, panicked |-> panicked]

\* the variant that never deletes an account
CreateLocalUsersNoDelete(bucket, pairs, salts) ==
    IF pairs = << >> THEN Provisioned(bucket, FALSE)
    ELSE IF \E i \in DOMAIN pairs : Len(pairs[i]) < 2 THEN Provisioned(bucket, TRUE)
    ELSE Provisioned(PutPairs(bucket, pairs, salts, 1), FALSE)

\* CreateLocalUsers under config.Env.AddLocalUsers = pairs. A pair without a colon
\* panics at u[1] and the batch is rolled back.
CreateLocalUsers(bucket, pairs, salts) ==
    IF pairs = << >> THEN Provisioned(bucket, FALSE)
    ELSE IF \E i \in DOMAIN pairs : Len(pairs[i]) < 2 THEN Provisioned(bucket, TRUE)
    ELSE LET usernames == {k \in DOMAIN bucket : bucket[k] # EmptyUser /\ k # "admin"}
             m == {pairs[i][1] : i \in DOMAIN pairs}
         IN  Provisioned(Delete(PutPairs(bucket, pairs, salts, 1), usernames \ m), FALSE)

\* b64.StdEncoding.EncodeToString and its inverse
Encode(token) == [b64 |-> token]
Decode(encoded) == encoded.b64

Issued(bucket, ret, err) == [bucket |-> bucket, ret |-> ret, err |-> err]

\* the variant that keeps a token the account already has
CreateUserTokenKeepsFirst(bucket, user, token, dbErr) ==
    IF dbErr \/ user.Token # 0 THEN Issued(bucket, Encode(token), dbErr)
    ELSE Issued(Put(bucket, user.Username, [user EXCEPT !.Token = token]), Encode(token), FALSE)

\* CreateUserToken(user) once password.Generate has returned token; dbErr is the
\* BoltDB.Update failing
CreateUserToken(bucket, user, token, dbErr) ==
    IF dbErr THEN Issued(bucket, Encode(token), TRUE)
    ELSE Issued(Put(bucket, user.Username, [user EXCEPT !.Token = token]), Encode(token), FALSE)

\* Validate(token) -> Account | NotFound: the account that stores the presented token
Validate(bucket, presented) ==
    LET hits == {u \in DOMAIN bucket :
                    /\ bucket[u] # EmptyUser
                    /\ Decode(presented) # 0
                    /\ bucket[u].Token = Decode(presented)}
    IN  IF hits = {} THEN "NotFound" ELSE CHOOSE u \in hits : TRUE

----------------------------------------------------------------------------
(* Start-up: the admin account, then the accounts declared in the environment. *)

PairInputs ==
    {<<"alice", "pw1">>, <<"alice", "pw2">>, <<"bob", "pw2">>, <<"admin", "pw1">>,
     <<"", "pw1">>, <<"carol">>, <<"bob", "pw", "x">>}

RECURSIVE PairLists(_)
PairLists(n) ==
    IF n = 0 THEN {<< >>}
    ELSE LET shorter == PairLists(n - 1)
         IN  shorter \cup {Append(l, a) : l \in {x \in shorter : Len(x) = n - 1},
                                          a \in PairInputs}

EnvLists == PairLists(MaxPairs)

AdminPasswords == {"", "old", "pw1"}

Stored(u, token) == User(u, Hash("old", 1), token)

\* the buckets an earlier run of the server may have left; a token of that run
\* is a negative number, unlike any this run generates
StoredBuckets ==
    {[u \in Usernames |->
        CASE u = "admin" -> IF ad THEN Stored(u, 0) ELSE EmptyUser
          [] u = "alice" -> IF al = 0 THEN EmptyUser ELSE Stored(u, 1 - al)
          [] u = "bob"   -> IF bo THEN Stored(u, 0) ELSE EmptyUser
          [] OTHER       -> IF ca THEN Stored(u, 0) ELSE EmptyUser] :
        ad \in BOOLEAN, al \in 0..2, bo \in BOOLEAN, ca \in BOOLEAN}

NoValidation == [presented |-> Encode(0), result |-> "NotFound"]

AdminRun(adminPassword, pre, r) ==
    [adminPassword |-> adminPassword, pre |-> pre, post |-> r.bucket["admin"],
     generated |-> r.generated, err |-> r.err]

AdminBoot ==
    /\ boot = "admin"
    /\ Len(adminLog) < MaxBoots
    /\ \E adminPassword \in AdminPasswords, salt \in Salts, dbErr \in BOOLEAN :
          LET r == CreateAdminUserIfNotExists(userBucket, adminPassword, salt, dbErr)
          IN  /\ userBucket' = r.bucket
              /\ adminLog' = Append(adminLog, AdminRun(adminPassword, userBucket["admin"], r))
    /\ boot' = "users"
    /\ UNCHANGED <<nextToken, issued, envUsers, preBucket, validated>>
    /\ UNCHANGED <<authVars, cveVars, localVars>>

\* the process is stopped and started again
Restart ==
    /\ boot = "users"
    /\ Len(adminLog) < MaxBoots
    /\ boot' = "admin"
    /\ UNCHANGED <<userBucket, nextToken, issued, envUsers, preBucket, validated, adminLog>>
    /\ UNCHANGED <<authVars, cveVars, localVars>>

LocalUsersBoot ==
    /\ boot = "users"
    /\ \E pairs \in EnvLists :
       \E salts \in [DOMAIN pairs -> Salts] :
          LET r == CreateLocalUsers(userBucket, pairs, salts)
          IN  /\ envUsers' = pairs
              /\ preBucket' = userBucket
              /\ userBucket' = r.bucket
              /\ boot' = IF r.panicked THEN "crashed" ELSE "serving"
    /\ UNCHANGED <<nextToken, issued, validated, adminLog>>
    /\ UNCHANGED <<authVars, cveVars, localVars>>

----------------------------------------------------------------------------
(* Serving: data-plane tokens are issued and presented.                      *)

Accounts(bucket) == {u \in DOMAIN bucket : bucket[u] # EmptyUser}

CreateUserTokenCall ==
    /\ boot = "serving"
    /\ nextToken < MaxTokens
    /\ \E u \in Accounts(userBucket), genErr \in BOOLEAN, dbErr \in BOOLEAN :
          IF genErr
             THEN UNCHANGED <<userBucket, nextToken, issued>>
             ELSE LET r == CreateUserToken(userBucket, userBucket[u], nextToken + 1, dbErr)
                  IN  /\ nextToken' = nextToken + 1
                      /\ userBucket' = r.bucket
                      /\ issued' = IF r.err THEN issued
                                   ELSE [issued EXCEPT ![u] = Append(@, r.ret)]
    /\ UNCHANGED <<boot, envUsers, preBucket, validated, adminLog>>
    /\ UNCHANGED <<authVars, cveVars, localVars>>

ValidateCall ==
    /\ boot = "serving"
    /\ \E n \in 0..nextToken :
          validated' = [presented |-> Encode(n), result |-> Validate(userBucket, Encode(n))]
    /\ UNCHANGED <<userBucket, nextToken, boot, issued, envUsers, preBucket, adminLog>>
    /\ UNCHANGED <<authVars, cveVars, localVars>>

----------------------------------------------------------------------------
(* Claims about tokens and provisioning.                                     *)

\* C7: after any sequence of CreateUserToken calls for an account, the account
\* stores exactly the token issued last: Validate of that token yields the
\* account, and Validate of every token issued to it earlier fails.
C7_LatestTokenOnly ==
    \A u \in Usernames :
       issued[u] # << >> =>
          LET n == Len(issued[u])
          IN  /\ userBucket[u].Token = Decode(issued[u][n])
              /\ Validate(userBucket, issued[u][n]) = u
              /\ \A i \in 1..(n - 1) : Validate(userBucket, issued[u][i]) = "NotFound"

C7_Witness ==
    \E u \in Usernames :
       /\ Len(issued[u]) >= 2
       /\ validated.presented = issued[u][1]
       /\ validated.result = "NotFound"

NonAdmin(bucket) == Accounts(bucket) \ {"admin"}
Declared(pairs) == {pairs[i][1] : i \in DOMAIN pairs}
LastPair(pairs, u) ==
    pairs[CHOOSE i \in DOMAIN pairs :
             pairs[i][1] = u /\ \A j \in DOMAIN pairs : pairs[j][1] = u => j <= i]

\* every pair is a non-empty username and a password without a colon
WellFormed(pairs) == \A i \in DOMAIN pairs : Len(pairs[i]) = 2 /\ pairs[i][1] # ""
Distinct(pairs) == \A i, j \in DOMAIN pairs : pairs[i][1] = pairs[j][1] => i = j

ExactlyDeclared(pairs) ==
    /\ NonAdmin(userBucket) = Declared(pairs) \ {"admin"}
    /\ \A u \in Declared(pairs) :
          /\ userBucket[u] # EmptyUser
          /\ CompareHashAndPassword(userBucket[u].Password, LastPair(pairs, u)[2])

ProvisioningRan == boot \in {"serving", "crashed"}

\* a write of the batch failed: a pair without a colon stops it at u[1], an empty
\* username is refused by Put
WriteFailed(pairs) == \E i \in DOMAIN pairs : Len(pairs[i]) < 2 \/ pairs[i][1] = ""

\* C25: bulk provisioning is applied as one atomic unit: the UserDirectory holds
\* either none or all of its writes, and when a write of the batch fails none of
\* them is visible afterwards and the failure is returned to the caller.
C25_BatchAllOrNothing ==
    (ProvisioningRan /\ WriteFailed(envUsers)) =>
       /\ userBucket = preBucket
       /\ boot = "crashed"

\* C26: bulk provisioning never creates, changes or deletes the admin account:
\* for every declared set the admin record afterwards equals the one before.
C26_AdminUntouchedByProvisioning ==
    ProvisioningRan => userBucket["admin"] = preBucket["admin"]

\* C23: whenever CreateAdminUserIfNotExists returns success with a supplied
\* admin password P, an admin Account exists whose stored hash verifies P; when
\* the stored hash verified P already, the record is left unchanged.
C23_AdminVerifiesSuppliedPassword ==
    \A i \in DOMAIN adminLog :
       LET r == adminLog[i]
       IN  (r.adminPassword # "" /\ ~r.err) =>
              /\ r.post # EmptyUser
              /\ CompareHashAndPassword(r.post.Password, r.adminPassword)
              /\ CompareHashAndPassword(r.pre.Password, r.adminPassword) => r.post = r.pre

\* C24: with no admin password supplied, a missing admin Account is created with
\* the hash of one generated password, logged once; an admin Account with a
\* password is left alone and nothing is generated. Any number of runs
\* therefore generates at most one password.
C24_GeneratesAtMostOnce ==
    /\ \A i \in DOMAIN adminLog :
          LET r == adminLog[i]
          IN  r.adminPassword = "" =>
                 IF r.pre = EmptyUser
                    THEN /\ r.generated
                         /\ CompareHashAndPassword(r.post.Password, GeneratedPassword)
                    ELSE ~r.generated /\ r.post = r.pre
    /\ (\A i \in DOMAIN adminLog : adminLog[i].adminPassword = "") =>
          Cardinality({i \in DOMAIN adminLog : adminLog[i].generated}) <= 1

----------------------------------------------------------------------------
(* Claims about the Accounts of the GitHub strategy.                         *)

\* the bucket and the validity cache an earlier request may have left
StoredAccounts ==
    {[l \in Logins |-> NoUser],
     [l \in Logins |-> [Username |-> l, Role |-> "admin", Type |-> "github",
                        GitHubToken |-> "gt1"]],
     [l \in Logins |-> [Username |-> l, Role |-> DefaultUserRole, Type |-> "github",
                        GitHubToken |-> "gt2"]]}

StoredCaches ==
    {[k \in GhTokens |-> NoEntry],
     [k \in GhTokens |-> IF k = "gt1" THEN CacheTTL ELSE NoEntry]}

Authenticated == last.kind \in {"gateway", "callback"} /\ last.authRan /\ ~last.authErr
AuthFailed == last.kind \in {"gateway", "callback"} /\ last.authRan /\ last.authErr

\* C12: when authenticateGitHubUser succeeds for login L with access token T, a
\* missing Account L is created with the default role, type github and token T;
\* an Account L with another token gets token T and keeps username, role and
\* type; an Account L with token T is not written.
C12_CreateRotateOrLeave ==
    Authenticated =>
       LET T == last.hdr.token.claims.gh
           L == GHLoginOf(T)
           pre == last.usersPre[L]
           post == last.usersPost[L]
       IN  /\ ghUsers = last.usersPost
           /\ pre = NoUser =>
                 /\ last.write = "create"
                 /\ post = [Username |-> L, Role |-> DefaultUserRole, Type |-> "github",
                            GitHubToken |-> T]
           /\ (pre # NoUser /\ pre.GitHubToken # T) =>
                 /\ post.GitHubToken = T
                 /\ post.Username = pre.Username
                 /\ post.Role = pre.Role
                 /\ post.Type = pre.Type
           /\ (pre # NoUser /\ pre.GitHubToken = T) =>
                 /\ last.write = "none"
                 /\ post = pre

\* an admin's token is rotated
C12_Witness ==
    /\ Authenticated
    /\ last.write = "update"
    /\ last.usersPre["alice"].Role = "admin"
    /\ last.usersPost["alice"].GitHubToken = "gt2"

\* C13: when the identity fetch or the org gate fails, authenticateGitHubUser
\* returns an error having created no Account, updated no Account and added no
\* entry to the validity cache, and the callback hands out no session token.
C13_FailureLeavesNoTrace ==
    AuthFailed =>
       /\ last.write = "none"
       /\ last.usersPost = last.usersPre /\ ghUsers = last.usersPre
       /\ last.cachePost = last.cachePre /\ cache = last.cachePre
       /\ last.kind = "callback" =>
             /\ last.status = 403 /\ last.aborted
             /\ last.hdr.token = NoToken
             /\ last.steps = <<"exchange", "authenticate">>

\* the org gate turns away the holder of an existing Account at the callback
C13_Witness ==
    /\ AuthFailed
    /\ last.kind = "callback"
    /\ last.idCalls = 1 /\ last.orgCalls = 1
    /\ last.usersPre["alice"] # NoUser

----------------------------------------------------------------------------
(* Functions called on their own: the arguments are drawn from the sets     *)
(* below and the call is recorded with its result.                          *)

FnCall(op, args, result) == [op |-> op, args |-> args, result |-> result]

NoFnCall == FnCall("none", << >>, FALSE)

OrgLogins == {"ACME", "acme", "Other", "Widgets"}

RECURSIVE OrgLists(_)
OrgLists(n) ==
    IF n = 0 THEN {<< >>}
    ELSE LET shorter == OrgLists(n - 1)
         IN  shorter \cup {Append(l, o) : l \in {x \in shorter : Len(x) = n - 1},
                                          o \in OrgLogins}

\* what GET api.github.com/user/orgs may answer
OrgGateResponses ==
    {[status |-> st, orgs |-> << >>] : st \in {"neterr", "http4xx", "readerr"}}
    \cup {[status |-> "ok", orgs |-> o] : o \in OrgLists(MaxOrgs)}

\* what cfg.Auth.GitHubUserOrgs may be set to
RequiredOrgsInputs == {<< >>, <<"acme">>, <<"Acme">>, <<"Widgets", "ACME">>, <<"missing">>}

OrgGateCall ==
    /\ fnCall = NoFnCall
    /\ \E orgResp \in OrgGateResponses, required \in RequiredOrgsInputs :
          fnCall' = FnCall("userMemberOfRequiredOrg",
                           [orgResp |-> orgResp, required |-> required],
                           userMemberOfRequiredOrg(orgResp, required))
    /\ UNCHANGED <<localTokens, loginLog, refreshed, store>>
    /\ UNCHANGED <<authVars, cveVars, userVars>>

\* C11: userMemberOfRequiredOrg succeeds if and only if some organization login
\* of the user equals, letter case aside, some entry of the required list; with
\* an empty required list it fails for every user.
C11_OrgGateIsCaseInsensitiveIntersection ==
    fnCall.op = "userMemberOfRequiredOrg" =>
       LET orgs == IF fnCall.args.orgResp.status = "ok" THEN fnCall.args.orgResp.orgs
                   ELSE << >>
           required == fnCall.args.required
       IN  /\ fnCall.result <=>
                 \E i \in DOMAIN orgs, j \in DOMAIN required :
                    ToLower(orgs[i]) = ToLower(required[j])
           /\ required = << >> => ~fnCall.result

\* a member of ACME passes the gate that requires acme
C11_Witness ==
    /\ fnCall.op = "userMemberOfRequiredOrg"
    /\ fnCall.args.required = <<"acme">>
    /\ fnCall.args.orgResp.orgs = <<"Other", "ACME">>
    /\ fnCall.result

----------------------------------------------------------------------------
(* The local strategy: gin-jwt's LoginHandler and RefreshHandler with the    *)
(* callbacks NewJwtMiddleware gives them.                                    *)

\* the login form: an absent field binds as the empty string
LoginVals == [Username : {"alice", "zed", ""}, Password : {"old", "wrong", ""}]

\* AuthenticateLocalUser(incoming): (authenticated, err # nil)
AuthenticateLocalUser(bucket, incoming) ==
    LET current == GetUser(bucket, incoming.Username)
    IN  IF ~CompareHashAndPassword(current.Password, incoming.Password)
           THEN [authenticated |-> FALSE, err |-> TRUE]
           ELSE [authenticated |-> TRUE, err |-> FALSE]

\* what an Authenticator hands to PayloadFunc: a bool or a models.User
BoolData(b) == [type |-> "bool", val |-> b, Username |-> "", Role |-> ""]
UserData(username, role) == [type |-> "User", val |-> TRUE, Username |-> username, Role |-> role]

AuthData(data, err) == [data |-> data, err |-> err]

\* the variant that reports a missing Account as such
AuthenticatorTellsMissingUser(bucket, loginVals) ==
    IF loginVals.Username = "" \/ loginVals.Password = ""
       THEN AuthData(BoolData(FALSE), "missing Username or Password")
    ELSE IF GetUser(bucket, loginVals.Username) = EmptyUser
       THEN AuthData(BoolData(FALSE), "no such user")
    ELSE LET a == AuthenticateLocalUser(bucket, loginVals)
         IN  IF a.err THEN AuthData(BoolData(FALSE), "incorrect Username or Password")
             ELSE AuthData(BoolData(a.authenticated), "")

\* Authenticator: err is the message of ErrMissingLoginValues or of
\* ErrFailedAuthentication, "" for nil
Authenticator(bucket, loginVals) ==
    IF loginVals.Username = "" \/ loginVals.Password = ""
       THEN AuthData(BoolData(FALSE), "missing Username or Password")
    ELSE LET a == AuthenticateLocalUser(bucket, loginVals)
         IN  IF a.err THEN AuthData(BoolData(FALSE), "incorrect Username or Password")
             ELSE AuthData(BoolData(a.authenticated), "")

\* PayloadFunc: data.(models.User) or no claims at all
PayloadFunc(data) ==
    IF data.type = "User"
       THEN MapClaims({IdentityKey, RoleKey}, data.Username, data.Role, "", 0, 0)
       ELSE EmptyClaims

\* IdentityHandler: claims[IdentityKey].(string) and claims[RoleKey].(string)
\* panic on a missing key
IdentityHandler(claims) ==
    IF IdentityKey \in claims.keys /\ RoleKey \in claims.keys
       THEN [panic |-> FALSE, Username |-> claims.id, Role |-> claims.role]
       ELSE [panic |-> TRUE, Username |-> "", Role |-> ""]

\* a JSON answer of the JWT middleware
Response(code, message, token) == [code |-> code, message |-> message, token |-> token]

\* gin-jwt's LoginHandler at time t
LoginHandler(bucket, loginVals, t) ==
    LET a == Authenticator(bucket, loginVals)
        p == PayloadFunc(a.data)
        claims == [p EXCEPT !.keys = p.keys \cup {"exp", "orig_iat"},
                            !.exp = t + Timeout,
                            !.iat = t]
    IN  IF a.err # "" THEN Response(401, a.err, NoToken)
        ELSE Response(200, "", NewToken("HS256", JWTSecretKey, claims))

\* the variant that refuses at the end of the window already
CheckIfTokenExpireStrict(token, t) ==
    IF ~(token.alg \in SigningMethods /\ ~Keyfunc(token).err
         /\ MethodVerify(token, Keyfunc(token).key))
       THEN "invalid"
    ELSE IF "orig_iat" \notin token.claims.keys THEN "panic"
    ELSE IF token.claims.iat <= t - MaxRefresh THEN "expired"
    ELSE "ok"

\* gin-jwt's CheckIfTokenExpire at time t: a parse error other than the token
\* being expired refuses; then origIat < TimeFunc().Add(-MaxRefresh).Unix() refuses
CheckIfTokenExpire(token, t) ==
    IF ~(token.alg \in SigningMethods /\ ~Keyfunc(token).err
         /\ MethodVerify(token, Keyfunc(token).key))
       THEN "invalid"
    ELSE IF "orig_iat" \notin token.claims.keys THEN "panic"
    ELSE IF token.claims.iat < t - MaxRefresh THEN "expired"
    ELSE "ok"

\* gin-jwt's RefreshHandler at time t
RefreshHandler(token, t) ==
    LET chk == CheckIfTokenExpire(token, t)
        claims == [token.claims EXCEPT !.exp = t + Timeout, !.iat = t]
    IN  CASE chk = "invalid" -> Response(401, "invalid token", NoToken)
          [] chk = "panic"   -> Response(500, "", NoToken)
          [] chk = "expired" -> Response(401, "token is expired", NoToken)
          [] OTHER           -> Response(200, "", NewToken("HS256", JWTSecretKey, claims))

LoginRecord(loginVals, exists, resp) == [vals |-> loginVals, exists |-> exists, resp |-> resp]

NoRefresh == [token |-> NoToken, at |-> 0, resp |-> Response(0, "", NoToken)]

\* POST /login
LoginRequest ==
    /\ Len(loginLog) < MaxLogins
    /\ \E loginVals \in LoginVals :
          LET resp == LoginHandler(userBucket, loginVals, now)
          IN  /\ resp.code = 200 =>
                    (resp.token \in localTokens \/ Cardinality(localTokens) < MaxSessions)
              /\ loginLog' = Append(loginLog,
                                    LoginRecord(loginVals,
                                                GetUser(userBucket, loginVals.Username) # EmptyUser,
                                                resp))
              /\ localTokens' = IF resp.code = 200 THEN localTokens \cup {resp.token}
                                ELSE localTokens
    /\ UNCHANGED <<fnCall, refreshed, store>>
    /\ UNCHANGED <<authVars, cveVars, userVars>>

\* GET /refresh-token with a token the client holds, or one it made up
RefreshRequest ==
    /\ \E token \in localTokens \cup UNION {Tampered(t) : t \in localTokens} :
          LET resp == RefreshHandler(token, now)
          IN  /\ resp.code = 200 =>
                    (resp.token \in localTokens \/ Cardinality(localTokens) < MaxSessions)
              /\ refreshed' = [token |-> token, at |-> now, resp |-> resp]
              /\ localTokens' = IF resp.code = 200 THEN localTokens \cup {resp.token}
                                ELSE localTokens
    /\ UNCHANGED <<fnCall, loginLog, store>>
    /\ UNCHANGED <<authVars, cveVars, userVars>>

\* Time passes, up to an instant next to the end of a token's life or of its
\* refresh window.
LocalInstants ==
    {t.claims.exp + d : t \in localTokens, d \in {-1, 0, 1}}
    \cup {t.claims.iat + MaxRefresh + d : t \in localTokens, d \in {-1, 0, 1}}

LocalTick ==
    /\ ticks < MaxTicks
    /\ \E t \in LocalInstants :
          /\ t > now
          /\ now' = t
    /\ ticks' = ticks + 1
    /\ UNCHANGED <<authMode, ghUsers, cache, sessions, authAt, last, inflight, deleted>>
    /\ UNCHANGED <<cveVars, userVars, localVars>>

----------------------------------------------------------------------------
(* Claims about the local strategy.                                          *)

\* C14: for an Account u with a stored hash of password P, Login(u, P) succeeds
\* and the token issued verifies to the claims identity = u and a role; Login(u, P')
\* fails for every other password P'.
C14_LoginRoundTrip ==
    \A i \in DOMAIN loginLog :
       LET r == loginLog[i]
           acct == GetUser(userBucket, r.vals.Username)
       IN  r.exists =>
              IF CompareHashAndPassword(acct.Password, r.vals.Password)
                 THEN /\ r.resp.code = 200
                      /\ ~IdentityHandler(r.resp.token.claims).panic
                      /\ IdentityHandler(r.resp.token.claims).Username = r.vals.Username
                 ELSE r.resp.code # 200 /\ r.resp.token = NoToken

\* C15: a login naming no Account and a login naming an Account with a wrong
\* password, the same password presented, get the same response.
C15_UniformLoginFailure ==
    \A i, j \in DOMAIN loginLog :
       LET a == loginLog[i]
           b == loginLog[j]
       IN  (/\ a.vals.Username # "" /\ ~a.exists
            /\ b.exists
            /\ ~CompareHashAndPassword(GetUser(userBucket, b.vals.Username).Password,
                                       b.vals.Password)
            /\ a.vals.Password = b.vals.Password)
           => a.resp = b.resp

C15_Witness ==
    /\ Len(loginLog) = 2
    /\ loginLog[1].vals = [Username |-> "zed", Password |-> "wrong"]
    /\ loginLog[2].vals = [Username |-> "alice", Password |-> "wrong"]
    /\ loginLog[2].exists
    /\ loginLog[1].resp.code = 401

Refreshed == refreshed # NoRefresh
Genuine == refreshed.token \in localTokens

KeepsClaims ==
    LET old == refreshed.token.claims
        new == refreshed.resp.token.claims
    IN  /\ new.keys = old.keys /\ new.id = old.id /\ new.role = old.role
        /\ new.exp = refreshed.at + Timeout

\* C16 as stated: a refresh of a session token issued at issuedAt succeeds at
\* every time strictly before issuedAt + MaxRefresh and fails at or after it; a
\* successful refresh keeps identity and role and carries a fresh expiry.
C16_RefreshStrictlyBefore ==
    (Refreshed /\ Genuine) =>
       /\ refreshed.resp.code = 200 <=> refreshed.at < refreshed.token.claims.iat + MaxRefresh
       /\ refreshed.resp.code = 200 => KeepsClaims

\* C16 amended: the refresh succeeds at every time up to and including
\* issuedAt + MaxRefresh and fails after it; a successful refresh keeps identity
\* and role and carries a fresh expiry.
C16_RefreshUpToBoundary ==
    (Refreshed /\ Genuine) =>
       /\ refreshed.resp.code = 200 <=> refreshed.at <= refreshed.token.claims.iat + MaxRefresh
       /\ refreshed.resp.code = 200 => KeepsClaims

\* a refresh at the very end of the window, granted
C16_Witness ==
    /\ Refreshed /\ Genuine
    /\ refreshed.at = refreshed.token.claims.iat + MaxRefresh
    /\ refreshed.resp.code = 200
    /\ refreshed.resp.token.claims.exp = refreshed.at + Timeout

----------------------------------------------------------------------------
(* The advisory functions called on their own.                               *)

\* every CVSS score in tenths, 0 for an absent one
Scores == 0..100

SeverityCall ==
    /\ fnCall = NoFnCall
    /\ \E v2 \in Scores, v3 \in Scores :
          LET cve == GemAdvisory("CVE-0", v2, v3, << >>, << >>)
          IN  fnCall' = FnCall("severity", [cve |-> cve], [severity |-> severity(cve)])
    /\ UNCHANGED <<localTokens, loginLog, refreshed, store>>
    /\ UNCHANGED <<authVars, cveVars, userVars>>

\* a score of each class, and the ends of the classes
ClassScores == {0, 1, 21, 39, 40, 69, 70, 75, 89, 90, 100}

AcceptableSeverityCall ==
    /\ fnCall = NoFnCall
    /\ \E v2 \in ClassScores, v3 \in ClassScores, maxSeverity \in MaxSeverityInputs :
          LET cve == GemAdvisory("CVE-0", v2, v3, << >>, << >>)
          IN  fnCall' = FnCall("acceptableSeverity",
                               [cve |-> cve, maxSeverity |-> maxSeverity],
                               [severity |-> severity(cve),
                                acceptable |-> acceptableSeverity(cve, maxSeverity)])
    /\ UNCHANGED <<localTokens, loginLog, refreshed, store>>
    /\ UNCHANGED <<authVars, cveVars, userVars>>

PatchedVersionCall ==
    /\ fnCall = NoFnCall
    /\ \E version \in VersionInputs \ {BadVersion}, cve \in AdvisoryPool :
          fnCall' = FnCall("isPatchedVersion",
                           [version |-> NewVersion(version).v, cve |-> cve],
                           [patched |-> isPatchedVersion(NewVersion(version).v, cve),
                            unaffected |-> isUnaffectedVersion(NewVersion(version).v, cve)])
    /\ UNCHANGED <<localTokens, loginLog, refreshed, store>>
    /\ UNCHANGED <<authVars, cveVars, userVars>>

\* C17: severity classifies by CVSSv3 when it is present (0.1-3.9 low, 4.0-6.9
\* medium, 7.0-8.9 high, 9.0-10.0 critical), otherwise by CVSSv2 when it is
\* present (up to 3.9 low, 4.0-6.9 medium, 7.0-10.0 high), and returns none when
\* both are absent; for every pair of scores in tenths from 0.0 to 10.0.
C17_SeverityByScore ==
    fnCall.op = "severity" =>
       LET v3 == fnCall.args.cve.CvssV3
           v2 == fnCall.args.cve.CvssV2
           expected ==
              IF v3 # 0
                 THEN IF v3 <= 39 THEN "low"
                      ELSE IF v3 <= 69 THEN "medium"
                      ELSE IF v3 <= 89 THEN "high"
                      ELSE "critical"
              ELSE IF v2 # 0
                 THEN IF v2 <= 39 THEN "low"
                      ELSE IF v2 <= 69 THEN "medium"
                      ELSE "high"
              ELSE "none"
       IN  fnCall.result.severity = expected

\* C18: acceptableSeverity is true for an advisory of severity none under every
\* threshold; true for every severity when the threshold is critical; false for
\* every other severity when the threshold is low; true exactly for low and
\* medium when the threshold is medium; true exactly for low, medium and high
\* when the threshold is high.
C18_AcceptableSeverityTable ==
    fnCall.op = "acceptableSeverity" =>
       LET sev == fnCall.result.severity
           threshold == ToLower(fnCall.args.maxSeverity)
           ok == fnCall.result.acceptable
       IN  /\ sev = "none" => ok
           /\ threshold = "critical" => ok
           /\ (threshold = "low" /\ sev # "none") => ~ok
           /\ (threshold = "medium" /\ sev # "none") => (ok <=> sev \in {"low", "medium"})
           /\ (threshold = "high" /\ sev # "none") => (ok <=> sev \in {"low", "medium", "high"})

\* CVSSv3 7.5 is high and a threshold of medium denies it
C18_Witness ==
    /\ fnCall.op = "acceptableSeverity"
    /\ fnCall.args.cve.CvssV3 = 75
    /\ fnCall.result.severity = "high"
    /\ fnCall.args.maxSeverity = "Medium"
    /\ ~fnCall.result.acceptable

\* the constraint >= 4.2.1, written out
AtLeast421(v) == Compare(v, <<4, 2, 1>>) >= 0

\* C19: isPatchedVersion is true if and only if the version satisfies at least
\* one of the advisory's patched-version constraints, never for an advisory
\* without any, and isUnaffectedVersion is the same over the unaffected-version
\* constraints; with patched versions [">= 4.2.1"], 4.2.0 is not patched and
\* 4.2.2 is.
C19_PatchedIffSomeConstraint ==
    fnCall.op = "isPatchedVersion" =>
       LET v == fnCall.args.version
           cve == fnCall.args.cve
       IN  /\ fnCall.result.patched <=>
                 \E i \in DOMAIN cve.PatchedVersions : Check(cve.PatchedVersions[i], v)
           /\ fnCall.result.unaffected <=>
                 \E i \in DOMAIN cve.UnaffectedVersions : Check(cve.UnaffectedVersions[i], v)
           /\ cve.PatchedVersions = << >> => ~fnCall.result.patched
           /\ cve.UnaffectedVersions = << >> => ~fnCall.result.unaffected
           /\ cve.PatchedVersions = << <<Atom(">=", <<4, 2, 1>>)>> >> =>
                 (fnCall.result.patched <=> AtLeast421(v))

\* a version that satisfies one constraint of two is patched
C19_Witness ==
    /\ fnCall.op = "isPatchedVersion"
    /\ fnCall.args.cve = AdvV2High
    /\ fnCall.args.version = <<4, 1, 7>>
    /\ fnCall.result.patched
    /\ ~fnCall.result.unaffected

\* C20: GetCVEs returns an empty list when the requested version cannot be
\* parsed, for every gem with cached advisories and every threshold, and when
\* the gem has no cached advisories.
C20_EmptyWhenUnparsableOrUncached ==
    (Called /\ (~Parsed \/ ~advisoryDB[cveIn.gem].found \/ CachedList = << >>))
       => cveOut = << >>

\* an unparsable version of a gem with a cached critical advisory, strictest threshold
C20_Witness ==
    /\ Called /\ ~Parsed
    /\ advisoryDB[cveIn.gem].found
    /\ CachedList # << >> /\ CachedList[1] = AdvCritical
    /\ cveIn.maxSeverity = "low"
    /\ cveOut = << >>

----------------------------------------------------------------------------
(* Start-up: the routes of the configured auth strategy are registered.      *)

\* what cfg.Auth.Type may be set to
AuthTypes == {"github", "GitHub", "local", "LOCAL", "none", "None", "ldap", ""}

\* the configuration start-up reads: cfg.Auth.Type, cfg.Auth.AllowAnonymousRead
\* and cfg.Mirrors[0].Enabled
Cfg(authType, allowAnonymousRead, mirrorEnabled) ==
    [authType |-> authType, allowAnonymousRead |-> allowAnonymousRead,
     mirrorEnabled |-> mirrorEnabled]

\* a group of routes and the middleware its router group had when they were added
Registration(routes, middleware) == [routes |-> routes, middleware |-> middleware]

\* the strategies whose routes and middleware are registered, log.Fatal, and the
\* registrations in the order they were made
Routes(strategies, fatal, table) ==
    [strategies |-> strategies, fatal |-> fatal, table |-> table]

\* (api *API) checkLicense: without a valid license cfg.Auth is replaced by one
\* of type none and the first mirror is disabled
checkLicense(licensed, cfg) == IF licensed THEN cfg ELSE Cfg("none", FALSE, FALSE)

\* checkLicense(l) of the Run that calls initRouter: without a valid license
\* cfg.Auth is replaced by one of type none
checkLicenseOfInitRouter(licensed, cfg) ==
    IF licensed THEN cfg ELSE Cfg("none", FALSE, cfg.mirrorEnabled)

configureMirror(cfg) ==
    IF cfg.mirrorEnabled THEN <<Registration("mirror", "none")>> ELSE << >>

\* the variant that adds the write routes to the group without middleware
configurePrivateWritesOpen(cfg) ==
    (IF ~cfg.allowAnonymousRead THEN <<Registration("privateRead", "token")>> ELSE << >>)
    \o configureMirror(cfg)
    \o (IF cfg.allowAnonymousRead THEN <<Registration("privateRead", "none")>> ELSE << >>)
    \o <<Registration("privateWrite", IF cfg.allowAnonymousRead THEN "none" ELSE "token")>>

\* configurePrivate: the group with TokenMiddlewareFunc gets the read routes
\* unless anonymous read is on, and the write routes; then the mirror; then,
\* with anonymous read on, a group without middleware gets the read routes
configurePrivate(cfg) ==
    (IF ~cfg.allowAnonymousRead THEN <<Registration("privateRead", "token")>> ELSE << >>)
    \o <<Registration("privateWrite", "token")>>
    \o configureMirror(cfg)
    \o (IF cfg.allowAnonymousRead THEN <<Registration("privateRead", "none")>> ELSE << >>)

\* configureGitHubAuth: /login and /github/callback are added before Use
configureGitHubAuth(cfg) ==
    <<Registration("login", "none"), Registration("callback", "none"),
      Registration("admin", "github")>> \o configurePrivate(cfg)

\* configureLocalAuth: /login and /refresh-token are added before Use
configureLocalAuth(cfg) ==
    <<Registration("login", "none"), Registration("refresh", "none"),
      Registration("admin", "jwt")>> \o configurePrivate(cfg)

configureNoneAuth(cfg) ==
    configureMirror(cfg)
    \o <<Registration("privateRead", "none"), Registration("privateWrite", "none"),
         Registration("admin", "none")>>

\* (api *API) registerRoutes
registerRoutes(cfg) ==
    CASE ToLower(cfg.authType) = "github" -> Routes({"github"}, FALSE, configureGitHubAuth(cfg))
      [] ToLower(cfg.authType) = "local"  -> Routes({"local"}, FALSE, configureLocalAuth(cfg))
      [] ToLower(cfg.authType) = "none"   -> Routes({"none"}, FALSE, configureNoneAuth(cfg))
      [] OTHER                            -> Routes({}, TRUE, << >>)

\* initRouter: its switch has no default
initRouter(cfg) ==
    CASE ToLower(cfg.authType) = "github" -> Routes({"github"}, FALSE, configureGitHubAuth(cfg))
      [] ToLower(cfg.authType) = "local"  -> Routes({"local"}, FALSE, configureLocalAuth(cfg))
      [] ToLower(cfg.authType) = "none"   -> Routes({"none"}, FALSE, configureNoneAuth(cfg))
      [] OTHER                            -> Routes({}, FALSE, << >>)

\* Run: the license is checked and the routes are registered by one of the two
\* functions the package has for it; configureLocalAuth goes on to the accounts
RegisterRoutes ==
    /\ boot = "routes"
    /\ fnCall = NoFnCall
    /\ \E authType \in AuthTypes, licensed \in BOOLEAN, entry \in {"registerRoutes", "initRouter"},
          anon \in BOOLEAN, mirror \in BOOLEAN :
          LET configured == Cfg(authType, anon, mirror)
              cfg == IF entry = "registerRoutes" THEN checkLicense(licensed, configured)
                     ELSE checkLicenseOfInitRouter(licensed, configured)
              r == IF entry = "registerRoutes" THEN registerRoutes(cfg) ELSE initRouter(cfg)
          IN  /\ fnCall' = FnCall(entry, [authType |-> authType, licensed |-> licensed,
                                          effective |-> cfg.authType, configured |-> configured,
                                          cfg |-> cfg], r)
              /\ boot' = IF r.fatal THEN "crashed"
                         ELSE IF r.strategies = {"local"} THEN "admin"
                         ELSE "serving"
    /\ UNCHANGED <<localTokens, loginLog, refreshed, store>>
    /\ UNCHANGED <<userBucket, nextToken, issued, envUsers, preBucket, validated, adminLog>>
    /\ UNCHANGED <<authVars, cveVars>>

RoutesRegistered == fnCall.op \in {"registerRoutes", "initRouter"}

\* C27: for every configured auth type start-up registers the routes and
\* middleware of exactly one strategy among github, local and none, matched
\* without regard to letter case, or aborts when the type is none of these; the
\* server never serves with zero or with two strategies.
C27_ExactlyOneStrategy ==
    RoutesRegistered =>
       LET t == ToLower(fnCall.args.effective)
           r == fnCall.result
       IN  /\ t \in {"github", "local", "none"} => (r.strategies = {t} /\ ~r.fatal)
           /\ t \notin {"github", "local", "none"} => (r.fatal /\ boot = "crashed")
           /\ boot # "crashed" => Cardinality(r.strategies) = 1

\* the registrations of a group of routes
Registered(routes) ==
    {i \in DOMAIN fnCall.result.table : fnCall.result.table[i].routes = routes}

MiddlewareOf(routes) == {fnCall.result.table[i].middleware : i \in Registered(routes)}

\* C36: in github and local auth modes the private write routes (gem upload,
\* yank, geminabox upload) are registered behind the data-plane token middleware
\* whatever the anonymous-read flag; the private read routes are registered
\* exactly once, behind the token middleware when anonymous read is off and
\* without it when anonymous read is on.
C36_PrivateRoutesAndTokenMiddleware ==
    (RoutesRegistered /\ fnCall.result.strategies \in {{"github"}, {"local"}})
       => /\ Cardinality(Registered("privateWrite")) = 1
          /\ MiddlewareOf("privateWrite") = {"token"}
          /\ Cardinality(Registered("privateRead")) = 1
          /\ MiddlewareOf("privateRead") =
                IF fnCall.args.cfg.allowAnonymousRead THEN {"none"} ELSE {"token"}

C36_Witness ==
    /\ RoutesRegistered
    /\ fnCall.result.strategies = {"github"}
    /\ fnCall.args.cfg.allowAnonymousRead
    /\ fnCall.args.cfg.mirrorEnabled
    /\ MiddlewareOf("privateRead") = {"none"}
    /\ MiddlewareOf("privateWrite") = {"token"}
    /\ boot = "serving"

\* C37: when the license is not validated, start-up forces the auth type to
\* none and disables the first mirror before any route is registered, whatever
\* auth type was configured: the private read, private write and admin routes
\* are registered with no authentication middleware and no mirror route is
\* registered.
C37_UnlicensedIsNoneWithoutMirror ==
    (RoutesRegistered /\ ~fnCall.args.licensed)
       => /\ fnCall.args.cfg.authType = "none"
          /\ ~fnCall.args.cfg.mirrorEnabled
          /\ fnCall.result.strategies = {"none"}
          /\ \A routes \in {"privateRead", "privateWrite", "admin"} :
                MiddlewareOf(routes) = {"none"}
          /\ Registered("mirror") = {}

----------------------------------------------------------------------------
(* Content requests: GET /gems/:gem of the mirror, answered by               *)
(* mirroredGemHandler.                                                        *)

\* the :gem parameter of a request, with the gem and the version it names
GemFile(gem, version, fileName) == [gem |-> gem, version |-> version, fileName |-> fileName]

GemFiles ==
    {GemFile("activerecord", <<4, 2, 0>>, "activerecord-4.2.0.gem"),
     GemFile("activerecord", <<4, 2, 2>>, "activerecord-4.2.2.gem"),
     GemFile("rack", <<2, 0>>, "rack-2.0.gem")}

\* the filter block of the configuration
FilterConfig(enabled, action, regex) == [enabled |-> enabled, action |-> action, regex |-> regex]
FilterConfigs ==
    {FilterConfig(en, ac, re) : en \in BOOLEAN, ac \in {"allow", "deny"}, re \in {"active.*", "rack"}}

\* the :gemspec.rz parameter that names the gemspec of a gem file
SpecName(file) ==
    CASE file.fileName = "activerecord-4.2.0.gem" -> "activerecord-4.2.0.gemspec.rz"
      [] file.fileName = "activerecord-4.2.2.gem" -> "activerecord-4.2.2.gemspec.rz"
      [] OTHER                                    -> "rack-2.0.gemspec.rz"

GemNames == {f.fileName : f \in GemFiles}
SpecNames == {SpecName(f) : f \in GemFiles}

\* regexp match of the patterns the model uses
Matches(regex, fileName) ==
    CASE regex = "active.*" -> fileName \in {"activerecord-4.2.0.gem", "activerecord-4.2.2.gem",
                                             "activerecord-4.2.0.gemspec.rz",
                                             "activerecord-4.2.2.gemspec.rz"}
      [] regex = "rack"     -> fileName \in {"rack-2.0.gem", "rack-2.0.gemspec.rz"}
      [] OTHER              -> FALSE

\* filter.IsAllowed
IsAllowed(cfg, fileName) ==
    IF ~cfg.enabled THEN TRUE
    ELSE IF cfg.action = "deny" THEN ~Matches(cfg.regex, fileName)
    ELSE Matches(cfg.regex, fileName)

\* the cve block of the configuration
CveConfigs == [enabled : BOOLEAN, maxSeverity : {"medium", "critical"}]

\* a file of GemDir or of quick/Marshal.4.8: not there, there with no bytes, there
\* with a part of the upstream's bytes, or there with all of them
DiskStates == {"absent", "empty", "partial", "complete"}
\* what the upstream does when the file is fetched: http.Get fails
\* ("unreachable"), a status other than 200 ("404"), the body breaks off during
\* io.Copy ("interrupted"), or 200 and the whole body; "unindexable": the whole
\* body, of which AddGemToIndex makes nothing
UpstreamAnswers == {"200", "404", "unreachable", "interrupted", "unindexable"}

\* the files of the mirror and the gems the index holds
Dirs(gems, quick, index) == [gems |-> gems, quick |-> quick, index |-> index]

\* the mirror as start-up finds it: its configuration, its files, and the
\* number of requests answered so far
Store(filterCfg, cveCfg, dirs, requests) ==
    [filter |-> filterCfg, cve |-> cveCfg, dirs |-> dirs, requests |-> requests]

EmptyDirs == Dirs([n \in GemNames |-> "absent"], [n \in SpecNames |-> "absent"], {})
FullDirs == Dirs([n \in GemNames |-> "complete"], [n \in SpecNames |-> "complete"], GemNames)

NoStore == Store(FilterConfig(FALSE, "deny", "rack"), [enabled |-> FALSE, maxSeverity |-> "medium"],
                 EmptyDirs, 0)

\* the response of a handler and what it did: whether the file was attached,
\* whether a request went to the upstream, and the files afterwards
Answer(code, delivered, fetched, dirs) ==
    [code |-> code, delivered |-> delivered, fetched |-> fetched, dirs |-> dirs]

\* the variant that creates the file before it asks the filter
mirroredGemHandlerCreatesFirst(filterCfg, file, dirs, createErr, upstream) ==
    LET name == file.fileName
        disk == dirs.gems[name]
        With(s) == [dirs EXCEPT !.gems[name] = s]
    IN  IF disk \in {"absent", "empty"}
           THEN IF ~IsAllowed(filterCfg, name)
                   THEN Answer(403, FALSE, FALSE, IF createErr THEN dirs ELSE With("empty"))
                ELSE IF createErr THEN Answer(500, FALSE, TRUE, dirs)
                ELSE CASE upstream = "unreachable" -> Answer(500, FALSE, TRUE, With("empty"))
                       [] upstream = "404"         -> Answer(404, FALSE, TRUE, With("empty"))
                       [] upstream = "interrupted" -> Answer(500, FALSE, TRUE, With("partial"))
                       [] upstream = "unindexable" -> Answer(500, FALSE, TRUE, With("absent"))
                       [] OTHER -> Answer(200, TRUE, TRUE,
                                          [With("complete") EXCEPT !.index = @ \cup {name}])
        ELSE IF ~IsAllowed(filterCfg, name) THEN Answer(403, FALSE, FALSE, dirs)
        ELSE Answer(200, TRUE, FALSE, dirs)

\* mirroredGemHandler: the filter, then the file from GemDir if it is there with
\* a size above 0, otherwise from the upstream. createErr: os.Create fails; the
\* handler writes 500 and goes on with a nil file, to which nothing can be copied.
mirroredGemHandler(filterCfg, file, dirs, createErr, upstream) ==
    LET name == file.fileName
        disk == dirs.gems[name]
        With(s) == [dirs EXCEPT !.gems[name] = s]
    IN  IF ~IsAllowed(filterCfg, name) THEN Answer(403, FALSE, FALSE, dirs)
        ELSE IF disk \in {"absent", "empty"}
           THEN IF createErr THEN Answer(500, FALSE, TRUE, dirs)
                ELSE CASE upstream = "unreachable" -> Answer(500, FALSE, TRUE, With("empty"))
                       [] upstream = "404"         -> Answer(404, FALSE, TRUE, With("empty"))
                       [] upstream = "interrupted" -> Answer(500, FALSE, TRUE, With("partial"))
                       \* defer os.Remove(fp)
                       [] upstream = "unindexable" -> Answer(500, FALSE, TRUE, With("absent"))
                       [] OTHER -> Answer(200, TRUE, TRUE,
                                          [With("complete") EXCEPT !.index = @ \cup {name}])
        \* "serving existing gem"
        ELSE Answer(200, TRUE, FALSE, dirs)

\* mirroredGemspecRzHandler: the filter, then the file from quick/Marshal.4.8 if
\* os.Stat finds it, otherwise from the upstream
mirroredGemspecRzHandler(filterCfg, file, dirs, createErr, upstream) ==
    LET name == SpecName(file)
        disk == dirs.quick[name]
        With(s) == [dirs EXCEPT !.quick[name] = s]
    IN  IF ~IsAllowed(filterCfg, name) THEN Answer(403, FALSE, FALSE, dirs)
        ELSE IF disk = "absent"
           THEN IF createErr THEN Answer(500, FALSE, FALSE, dirs)
                ELSE CASE upstream = "unreachable" -> Answer(500, FALSE, TRUE, With("empty"))
                       \* out.Close(); os.RemoveAll(fp)
                       [] upstream = "404"         -> Answer(404, FALSE, TRUE, With("absent"))
                       [] upstream = "interrupted" -> Answer(500, FALSE, TRUE, With("partial"))
                       [] OTHER                    -> Answer(200, TRUE, TRUE, With("complete"))
        \* "serving existing gemspec.rz"
        ELSE Answer(200, TRUE, FALSE, dirs)

\* what a mirror request was and what it found
MirrorArgs(file, name, disk, createErr, upstream) ==
    [file |-> file, name |-> name, filter |-> store.filter, cve |-> store.cve,
     disk |-> disk, createErr |-> createErr, upstream |-> upstream, pre |-> store.dirs]

\* GET /gems/:gem under auth "none"
MirrorGemRequest ==
    /\ fnCall = NoFnCall
    /\ store.requests < MaxRequests
    /\ \E file \in GemFiles, createErr \in BOOLEAN, upstream \in UpstreamAnswers :
          LET r == mirroredGemHandler(store.filter, file, store.dirs, createErr, upstream)
          IN  /\ fnCall' = FnCall("mirroredGemHandler",
                                  MirrorArgs(file, file.fileName, store.dirs.gems[file.fileName],
                                             createErr, upstream),
                                  r)
              /\ store' = [store EXCEPT !.dirs = r.dirs, !.requests = @ + 1]
    /\ UNCHANGED <<localTokens, loginLog, refreshed>>
    /\ UNCHANGED <<authVars, cveVars, userVars>>

\* GET /quick/Marshal.4.8/:gemspec.rz under auth "none"
MirrorGemspecRequest ==
    /\ fnCall = NoFnCall
    /\ store.requests < MaxRequests
    /\ \E file \in GemFiles, createErr \in BOOLEAN,
          upstream \in UpstreamAnswers \ {"unindexable"} :
          LET r == mirroredGemspecRzHandler(store.filter, file, store.dirs, createErr, upstream)
          IN  /\ fnCall' = FnCall("mirroredGemspecRzHandler",
                                  MirrorArgs(file, SpecName(file),
                                             store.dirs.quick[SpecName(file)],
                                             createErr, upstream),
                                  r)
              /\ store' = [store EXCEPT !.dirs = r.dirs, !.requests = @ + 1]
    /\ UNCHANGED <<localTokens, loginLog, refreshed>>
    /\ UNCHANGED <<authVars, cveVars, userVars>>

\* the response is written: the next request is taken
MirrorRespond ==
    /\ fnCall.op \in {"mirroredGemHandler", "mirroredGemspecRzHandler"}
    /\ fnCall' = NoFnCall
    /\ UNCHANGED <<localTokens, loginLog, refreshed, store>>
    /\ UNCHANGED <<authVars, cveVars, userVars>>

GemRequested == fnCall.op = "mirroredGemHandler"
MirrorRequested == fnCall.op \in {"mirroredGemHandler", "mirroredGemspecRzHandler"}

\* the advisories GetCVEs holds against the requested gem version
RequestCVEs ==
    GetCVEs(advisoryDB, fnCall.args.file.gem, fnCall.args.file.version,
            fnCall.args.cve.maxSeverity)

\* C28: with CVE checking enabled and max_severity = medium, a content request
\* for a gem version that has a blocking advisory is answered with 405 and the
\* gem is not served.
C28_BlockedGemIsNotServed ==
    (/\ GemRequested
     /\ fnCall.args.cve.enabled /\ fnCall.args.cve.maxSeverity = "medium"
     /\ RequestCVEs # << >>)
       => (fnCall.result.code = 405 /\ ~fnCall.result.delivered)

\* C29: with the filter enabled, action deny and a regex matching the gem name,
\* a mirror request for the gem is answered with 405 and the gem is not
\* delivered; with action allow and a regex matching the gem name, the gem is
\* delivered.
C29_FilterDeniesWith405 ==
    (/\ GemRequested
     /\ fnCall.args.filter.enabled
     /\ Matches(fnCall.args.filter.regex, fnCall.args.file.fileName))
       => /\ fnCall.args.filter.action = "deny" =>
                (fnCall.result.code = 405 /\ ~fnCall.result.delivered)
          /\ (/\ fnCall.args.filter.action = "allow"
              /\ (fnCall.args.disk \in {"partial", "complete"}
                  \/ (fnCall.args.upstream = "200" /\ ~fnCall.args.createErr)))
                => fnCall.result.delivered

\* C33: in mirroredGemHandler and mirroredGemspecRzHandler the filter is asked
\* before anything else is done: for a name the filter does not allow, no file
\* is created in the gem or quick/Marshal.4.8 directory, no request is sent to
\* the upstream and the index is not updated.
C33_DeniedRequestHasNoEffect ==
    (MirrorRequested /\ ~IsAllowed(fnCall.args.filter, fnCall.args.name))
       => /\ store.dirs = fnCall.args.pre
          /\ fnCall.result.dirs = fnCall.args.pre
          /\ ~fnCall.result.fetched
          /\ ~fnCall.result.delivered

C33_Witness ==
    /\ GemRequested
    /\ ~IsAllowed(fnCall.args.filter, fnCall.args.name)
    /\ fnCall.args.disk = "absent" /\ fnCall.args.upstream = "200" /\ ~fnCall.args.createErr
    /\ store.dirs.gems[fnCall.args.name] = "absent"
    /\ store.requests = 2
    /\ \E n \in SpecNames : store.dirs.quick[n] = "complete"

\* C38: a file that a request serves as already existing in the local store is
\* a complete copy of a successful (status 200) upstream response: a request
\* whose upstream fetch fails (connection error, status other than 200, or
\* interrupted copy) leaves no file that a later request serves without fetching
\* again.
C38_ServedExistingIsComplete ==
    (MirrorRequested /\ fnCall.result.delivered /\ ~fnCall.result.fetched)
       => fnCall.args.disk = "complete"

----------------------------------------------------------------------------
(* The body of a response. A body is the sequence of the strings it is made  *)
(* of; an error is the text its Error() gives, in the same form.              *)

\* the text of an error of the transport or of the user bucket: what net/http,
\* io.ReadAll or bolt put in it
ErrorDetails == {"dial tcp 140.82.112.6:443: connect: connection refused",
                 "net/http: TLS handshake timeout"}

\* the error authenticateGitHubUser returns, << >> for nil
authenticateGitHubUserErr(userResp, orgResp, dbErr, detail) ==
    CASE userResp = "neterr"  -> <<detail>>
      [] userResp = "http4xx" -> <<"github returned an error">>
      [] userResp = "readerr" -> <<"failed to read GET user response from github: ", detail>>
      [] userResp = "nologin" -> <<"user login not returned from github">>
      [] OTHER ->
         CASE orgResp.status = "neterr"  -> <<detail>>
           [] orgResp.status = "http4xx" -> <<"github returned an error">>
           [] orgResp.status = "readerr" ->
                 <<"failed to read GET user/orgs response from github: ", detail>>
           [] OTHER ->
              IF ~userMemberOfRequiredOrg(orgResp, GitHubUserOrgs)
                 THEN <<"user is not a member of any required github org">>
              ELSE IF dbErr THEN <<detail>>
              ELSE << >>

\* what GitHubCallbackHandler writes with c.String, from the outcome o of the
\* request and the error err of authenticateGitHubUser
CallbackBody(o, err) ==
    CASE o.steps = <<"exchange">> /\ o.status = 500 ->
            <<"failed to get an access token from github">>
      [] o.steps = <<"exchange">> /\ o.status = 403 ->
            <<"failed to read response of access token request">>
      [] o.steps = <<"exchange", "authenticate">> ->
            <<"failed to fetch github user with provided token: ">> \o err
      [] OTHER -> <<"github/callback.tmpl">>

\* what GitHubMiddlewareFunc writes with c.String; << >> when the request is
\* passed on
GatewayBody(o, evalErr, err) ==
    LET n == Len(o.steps) IN
    CASE o.status = 200 -> << >>
      [] o.steps[n] = "header" -> <<"missing authorization header">>
      [] o.steps[n] = "bearer" -> <<"unable to parse bearer token from request">>
      [] o.steps[n] = "parse"  -> <<"unable to parse jwt token from request">>
      [] o.steps[n] = "claims" -> <<"unable to extract claims from request">>
      [] o.steps[n] = "cast"   -> <<"Internal Server Error">>
      [] o.steps[n] = "authenticate" ->
            <<"failed to fetch github user with provided token: ">> \o err
      [] o.steps[n] = "enforce" /\ evalErr -> <<"failed to check acl">>
      [] OTHER -> <<"denied access to resource by ACL">>

Reply(status, body) == [status |-> status, body |-> body]

\* One request, answered twice from the same state: the two runs differ in
\* nothing but the text of the errors the transport and the bucket return.
FailurePairCall ==
    /\ fnCall = NoFnCall
    /\ \E kind \in {"callback", "gateway"}, d1 \in ErrorDetails, d2 \in ErrorDetails,
          in \in AuthInputs, exch \in ExchangeResponses, hdr \in HeaderInputs,
          res \in Resources, evalErr \in BOOLEAN :
          LET err1 == IF kind = "callback" /\ exch = "notoken"
                         THEN <<"github returned an error">>
                         ELSE authenticateGitHubUserErr(in.userResp, in.orgResp, in.dbErr, d1)
              err2 == IF kind = "callback" /\ exch = "notoken"
                         THEN <<"github returned an error">>
                         ELSE authenticateGitHubUserErr(in.userResp, in.orgResp, in.dbErr, d2)
              o == IF kind = "callback"
                      THEN CallbackOutcome(exch, "gt1", in.userResp, in.orgResp, in.dbErr,
                                           ghUsers, cache, now)
                      ELSE GatewayOutcome(hdr, res, FALSE, in.userResp, in.orgResp, in.dbErr,
                                          evalErr, ghUsers, cache, now)
              b1 == IF kind = "callback" THEN CallbackBody(o, err1)
                    ELSE GatewayBody(o, evalErr, err1)
              b2 == IF kind = "callback" THEN CallbackBody(o, err2)
                    ELSE GatewayBody(o, evalErr, err2)
          IN  /\ kind = "callback" => (hdr = Header(0, "", NoToken) /\ ~evalErr
                                       /\ res = <<"/admin/api/v1/gems", "GET">>)
              /\ kind = "gateway" => exch = "ok"
              /\ fnCall' = FnCall(kind,
                                  [exch |-> exch, hdr |-> hdr, res |-> res, in |-> in,
                                   evalErr |-> evalErr, details |-> <<d1, d2>>,
                                   steps |-> o.steps],
                                  <<Reply(o.status, b1), Reply(o.status, b2)>>)
    /\ UNCHANGED <<localTokens, loginLog, refreshed, store>>
    /\ UNCHANGED <<authVars, cveVars, userVars>>

\* C32: the body of an authentication or authorization failure is a fixed
\* reason: two failing requests that differ only in the internal error (the
\* text of the upstream transport error, say) get the same status and the same
\* body.
C32_FailureBodyIsFixed ==
    (/\ fnCall.op \in {"callback", "gateway"}
     /\ fnCall.result[1].status \in {400, 403})
       => fnCall.result[1] = fnCall.result[2]

----------------------------------------------------------------------------
(* Claims about the handlers step by step.                                   *)

\* C31: every call to the identity provider (token exchange, user fetch, org
\* fetch) is bounded by a timeout: a callback or gateway request whose upstream
\* call never receives a response still ends with a response written.
C31_BlockedRequestIsAnswered == Blocked ~> (inflight.pc = "done")

\* C34: after an administrator has deleted a GitHub Account it stays absent
\* until that user completes a new login through the callback; gateway requests
\* with a session token issued before the deletion do not create it again.
C34_DeletedStaysAbsent == \A l \in deleted : ghUsers[l] = NoUser

\* C35: when authenticateGitHubUser stores the rotated token of an Account while
\* an administrator changes the role of that Account, the Account ends with the
\* administrator's role and with the new token.
C35_RotationKeepsAdminRole ==
    (inflight.pc = "done" /\ inflight.write = "update" /\ inflight.adminRole # "")
       => /\ ghUsers[GHLoginOf(inflight.at)].Role = inflight.adminRole
          /\ ghUsers[GHLoginOf(inflight.at)].GitHubToken = inflight.at

----------------------------------------------------------------------------
(* Specifications. Each one runs one part of the server and holds the state  *)
(* of the other parts still.                                                  *)

CveIdle ==
    /\ advisoryDB = EmptyCache /\ tree = EmptyTree /\ walk = << >> /\ rpc = "idle"
    /\ cacheKey = "" /\ builds = 0 /\ prevBuild = EmptyCache
    /\ observed = NoObservation /\ cveIn = NoCall /\ cveOut = << >>
    /\ sync = NoSync

UsersIdle ==
    /\ userBucket = [u \in Usernames |-> EmptyUser] /\ nextToken = 0 /\ boot = "serving"
    /\ issued = [u \in Usernames |-> << >>] /\ envUsers = << >>
    /\ preBucket = [u \in Usernames |-> EmptyUser] /\ validated = NoValidation /\ adminLog = << >>

LocalIdle ==
    /\ fnCall = NoFnCall /\ localTokens = {} /\ loginLog = << >> /\ refreshed = NoRefresh
    /\ store = NoStore

AuthIdle ==
    /\ authMode = "github" /\ now = 0 /\ ticks = 0 /\ ghUsers = [l \in Logins |-> NoUser]
    /\ cache = [k \in GhTokens |-> NoEntry] /\ sessions = {}
    /\ authAt = [k \in GhTokens |-> NoEntry] /\ last = NoRequest
    /\ inflight = NoFlight /\ deleted = {}

\* the authentication gateway
Init == AuthInit /\ CveIdle /\ UsersIdle /\ LocalIdle

Next ==
    \/ GitHubMiddlewareFunc
    \/ GitHubCallbackHandler
    \/ LocalMiddlewareFunc
    \/ Tick
    \/ Respond

Spec == Init /\ [][Next]_vars

\* GetCVEs over the caches a build may have left
InitCVE ==
    /\ AuthIdle /\ UsersIdle /\ LocalIdle
    /\ \E l \in AdvisoryLists, r \in {NotFound, Found(<<AdvNoScore>>)} :
          advisoryDB = [g \in Gems |-> IF g = "activerecord" THEN Found(l) ELSE r]
    /\ tree = EmptyTree /\ walk = << >> /\ rpc = "idle" /\ cacheKey = "" /\ builds = 0
    /\ prevBuild = advisoryDB /\ observed = NoObservation /\ cveIn = NoCall /\ cveOut = << >>
    /\ sync = Sync(TRUE, "cloned", FALSE, "nil")

NextCVE == GetCVEsCall

SpecCVE == InitCVE /\ [][NextCVE]_vars

\* the cache rebuild and its readers
\* a fresh process, with or without the clone an earlier run left on disk
InitRebuild ==
    /\ AuthIdle /\ UsersIdle /\ LocalIdle
    /\ advisoryDB = EmptyCache /\ walk = << >> /\ rpc = "idle"
    /\ cacheKey = "" /\ builds = 0 /\ prevBuild = EmptyCache
    /\ observed = NoObservation /\ cveIn = NoCall /\ cveOut = << >>
    /\ \/ sync = NoSync /\ tree = EmptyTree
       \/ sync = Sync(TRUE, "none", FALSE, "none") /\ tree \in Trees

NextRebuild ==
    \/ UpdateAdvisoryRepo
    \/ CacheClose
    \/ WalkStep
    \/ WalkDone
    \/ ReaderGet

SpecRebuild == InitRebuild /\ [][NextRebuild]_vars

\* start-up over the buckets an earlier run may have left
InitUsers ==
    /\ AuthIdle /\ CveIdle /\ LocalIdle
    /\ userBucket \in StoredBuckets /\ nextToken = 0 /\ boot = "admin"
    /\ issued = [u \in Usernames |-> << >>] /\ envUsers = << >>
    /\ preBucket = userBucket /\ validated = NoValidation /\ adminLog = << >>

NextUsers ==
    \/ AdminBoot
    \/ LocalUsersBoot

SpecUsers == InitUsers /\ [][NextUsers]_vars

\* start-up from the configuration to the admin account
InitStartup ==
    /\ AuthIdle /\ CveIdle /\ LocalIdle
    /\ userBucket \in StoredBuckets /\ nextToken = 0 /\ boot = "routes"
    /\ issued = [u \in Usernames |-> << >>] /\ envUsers = << >>
    /\ preBucket = userBucket /\ validated = NoValidation /\ adminLog = << >>

NextStartup ==
    \/ RegisterRoutes
    \/ AdminBoot

SpecStartup == InitStartup /\ [][NextStartup]_vars

\* the admin account over several starts of the process
NextAdmin ==
    \/ AdminBoot
    \/ Restart

SpecAdmin == InitUsers /\ [][NextAdmin]_vars

\* token issue and validation while serving
InitToken ==
    /\ AuthIdle /\ CveIdle /\ LocalIdle
    /\ userBucket \in {b \in StoredBuckets : b["admin"] # EmptyUser /\ b["carol"] = EmptyUser}
    /\ nextToken = 0 /\ boot = "serving"
    /\ issued = [u \in Usernames |-> << >>] /\ envUsers = << >>
    /\ preBucket = userBucket /\ validated = NoValidation /\ adminLog = << >>

NextToken ==
    \/ CreateUserTokenCall
    \/ ValidateCall

SpecToken == InitToken /\ [][NextToken]_vars

\* authentication over the Accounts and cache entries earlier requests left
InitAccounts ==
    /\ authMode = "github" /\ now = 0 /\ ticks = 0
    /\ ghUsers \in StoredAccounts /\ cache \in StoredCaches
    /\ sessions = {} /\ authAt = [k \in GhTokens |-> NoEntry] /\ last = NoRequest
    /\ inflight = NoFlight /\ deleted = {}
    /\ CveIdle /\ UsersIdle /\ LocalIdle

NextAccounts ==
    \/ GitHubMiddlewareFunc
    \/ GitHubCallbackHandler
    \/ Respond

SpecAccounts == InitAccounts /\ [][NextAccounts]_vars

\* the local strategy over the buckets start-up may have left
InitLogin ==
    /\ authMode = "local" /\ now = 0 /\ ticks = 0 /\ ghUsers = [l \in Logins |-> NoUser]
    /\ cache = [k \in GhTokens |-> NoEntry] /\ sessions = {}
    /\ authAt = [k \in GhTokens |-> NoEntry] /\ last = NoRequest
    /\ inflight = NoFlight /\ deleted = {}
    /\ CveIdle /\ LocalIdle
    /\ userBucket \in {b \in StoredBuckets :
                          /\ b["admin"] # EmptyUser /\ b["carol"] = EmptyUser
                          /\ b["alice"] # EmptyUser /\ b["alice"].Token = 0}
    /\ nextToken = 0 /\ boot = "serving"
    /\ issued = [u \in Usernames |-> << >>] /\ envUsers = << >>
    /\ preBucket = userBucket /\ validated = NoValidation /\ adminLog = << >>

NextLogin ==
    \/ LoginRequest
    \/ RefreshRequest
    \/ LocalTick

SpecLogin == InitLogin /\ [][NextLogin]_vars

\* content requests over the cache a rebuild has left
InitMirror ==
    /\ AuthIdle /\ UsersIdle
    /\ fnCall = NoFnCall /\ localTokens = {} /\ loginLog = << >> /\ refreshed = NoRefresh
    /\ \E f \in FilterConfigs, c \in CveConfigs, d \in {EmptyDirs, FullDirs} :
          store = Store(f, c, d, 0)
    /\ \E tr \in Trees : advisoryDB = CompleteCache(tr) /\ tree = tr
    /\ walk = << >> /\ rpc = "idle" /\ cacheKey = "" /\ builds = 0
    /\ prevBuild = advisoryDB /\ observed = NoObservation /\ cveIn = NoCall /\ cveOut = << >>
    /\ sync = Sync(TRUE, "cloned", FALSE, "nil")

NextMirror == MirrorGemRequest

SpecMirror == InitMirror /\ [][NextMirror]_vars

\* the mirror over a run of requests, from an empty store
InitStore ==
    /\ AuthIdle /\ CveIdle /\ UsersIdle
    /\ fnCall = NoFnCall /\ localTokens = {} /\ loginLog = << >> /\ refreshed = NoRefresh
    /\ \E f \in FilterConfigs : store = Store(f, NoStore.cve, EmptyDirs, 0)

NextStore ==
    \/ MirrorGemRequest
    \/ MirrorGemspecRequest
    \/ MirrorRespond

SpecStore == InitStore /\ [][NextStore]_vars

\* the advisory functions on their own
InitAdvisory == AuthIdle /\ CveIdle /\ UsersIdle /\ LocalIdle

NextAdvisory ==
    \/ SeverityCall
    \/ AcceptableSeverityCall
    \/ PatchedVersionCall

SpecAdvisory == InitAdvisory /\ [][NextAdvisory]_vars

\* the org gate on its own
InitOrgGate == AuthIdle /\ CveIdle /\ UsersIdle /\ LocalIdle

NextOrgGate == OrgGateCall

SpecOrgGate == InitOrgGate /\ [][NextOrgGate]_vars

\* the handlers step by step, with an administrator at work
InitFlight == AuthIdle /\ CveIdle /\ UsersIdle /\ LocalIdle

NextFlight ==
    \/ CallbackBegin
    \/ GatewayBegin
    \/ DoReturns
    \/ GetUserStep
    \/ AnswerRequest
    \/ Finish
    \/ DeleteUser
    \/ SetUserRole
    \/ FlightTick

SpecFlight == InitFlight /\ [][NextFlight]_vars

\* the goroutine of a handler is scheduled whenever it can run; nothing obliges
\* the identity provider to answer
SpecFlightFair ==
    /\ InitFlight /\ [][NextFlight]_vars
    /\ WF_vars(GetUserStep) /\ WF_vars(AnswerRequest) /\ WF_vars(Finish)

\* failing requests over the Accounts and cache entries earlier requests left
NextFailure == FailurePairCall

SpecFailure == InitAccounts /\ [][NextFailure]_vars

====
